---- MODULE Spec2Model ----
(***************************************************************************)
(* A state-machine model of src/src/server.py: the PowerBIConnector (the   *)
(* connected flag, the connection string, the cached table list and the    *)
(* connector methods, which run on worker threads), and the               *)
(* PowerBIMCPServer (the asyncio request-handling loop, the threading.Lock *)
(* named connection_lock, the tool handlers and the run_in_executor jobs   *)
(* they await).                                                            *)
(*                                                                         *)
(* One coroutine step of the model is one segment of a handler between two *)
(* awaits: the asyncio loop runs such a segment without interruption by    *)
(* another coroutine.  One worker step is one access of a connector method *)
(* to shared connector state or to the driver; worker steps interleave     *)
(* freely with each other and with the loop.                               *)
(***************************************************************************)
EXTENDS Integers, Sequences, FiniteSets, TLC

VARIABLES
    env,                \* process environment and driver: Pyadomd loaded?, OPENAI_API_KEY, DEFAULT_*
    connection_string,  \* PowerBIConnector.connection_string
    connected,          \* PowerBIConnector.connected
    tables,             \* PowerBIConnector.tables
    is_connected,       \* PowerBIMCPServer.is_connected
    analyzer,           \* PowerBIMCPServer.analyzer
    connection_lock,    \* PowerBIMCPServer.connection_lock: 0 free, else the holder
    loopBlocked,        \* 0, or the request whose lock.acquire() blocks the loop thread
    nreq,               \* number of tool requests received so far
    kind,               \* per coroutine: the tool name (or "prime" for a priming task)
    args,               \* per coroutine: the arguments of the request
    pc,                 \* per coroutine: its position
    res,                \* per coroutine: the text returned to the caller
    job,                \* per coroutine: the run_in_executor job it awaits
    frame,              \* per priming task: its locals tables, schemas, sample_data
    handles,            \* number of open Pyadomd handles
    cacheSrc,           \* history: the probe whose result the cached table list holds
    lastDisc,           \* history: the last discover_tables return since the last connect
    lastSchema,         \* history: the last get_table_schema return since the last connect
    lastWrite           \* history: the last write to the connection state, and whether
                        \* the connection lock was held for it

vars == <<env, connection_string, connected, tables, is_connected, analyzer,
          connection_lock, loopBlocked, nreq, kind, args, pc, res, job,
          frame, handles, cacheSrc, lastDisc, lastSchema, lastWrite>>

-----------------------------------------------------------------------------
(* Bounds *)

\* Number of tool requests a behaviour receives.
MaxReq == 2

-----------------------------------------------------------------------------
(* Values *)

None == "None"
\* PowerBIConnector.connection_string before the first connect (None)
NoConnStr == <<>>

Req == 1..MaxReq
\* The priming task created by connect request r is coroutine MaxReq + r.
PrimeOf(r) == MaxReq + r
Tasks == 1..(2 * MaxReq)

\* `for table in tables[:5]`
PrimeCap == 5
\* get_sample_data(table, 3) in priming, get_sample_data(table_name, 5) in get_table_info
PrimeSampleRows == 3
InfoSampleRows == 5

\* Python truthiness of an argument or environment value.
Truthy(v) == v # None /\ v # ""

\* Messages the driver raises with.
DriverMsgs == {"timeout"}

\* Table names are sequences of characters.
nSales == <<"S", "a", "l", "e", "s">>
nProduct == <<"P", "r", "o", "d", "u", "c", "t">>
nDollarFoo == <<"$", "F", "o", "o">>
nDateTpl1 == <<"D", "a", "t", "e", "T", "a", "b", "l", "e", "T", "e", "m", "p", "l", "a", "t", "e", "_", "1">>
nSysTable == <<"S", "y", "s">>

Row(n, s) == [TABLE_NAME |-> n, TABLE_SCHEMA |-> s]

\* Longest catalog the driver answers a probe with, when it may answer anything.
MaxRows == 3

nSalesLower == <<"s", "a", "l", "e", "s">>
nDateTplLower == <<"d", "a", "t", "e", "T", "a", "b", "l", "e", "T", "e", "m", "p", "l", "a", "t", "e", "_", "1">>
nDateTplShort == <<"D", "a", "t", "e", "T", "a", "b", "l", "e", "T", "e", "m", "p", "l", "a", "t", "e">>
nMidDollar == <<"A", "$">>

\* The catalog row lists a driver may answer a schema probe with: a catalog whose
\* probes list at most one user table, one whose probes list up to two, and one
\* that answers any list of up to MaxRows rows over a universe of names and schemas.
NarrowRows ==
    { << Row(nDollarFoo, "Model"), Row(nSysTable, "$SYSTEM") >>,
      << Row(nDollarFoo, "Model"), Row(nDateTpl1, "Model"), Row(nSales, "Model") >>,
      << Row(nSysTable, "$SYSTEM"), Row(nProduct, "Model") >> }
WideRows ==
    { << Row(nDollarFoo, "Model"), Row(nSysTable, "$SYSTEM") >>,
      << Row(nDollarFoo, "Model"), Row(nDateTpl1, "Model"), Row(nSales, "Model") >>,
      << Row(nSales, "Model"), Row(nSysTable, "$SYSTEM"), Row(nProduct, "Model") >> }
AnyRow ==
    { Row(n, sch) : n \in {nSales, nDollarFoo, nMidDollar, nDateTpl1, nDateTplLower,
                           nDateTplShort},
                   sch \in {"Model", "$SYSTEM"} }
    \cup { Row(nSalesLower, "$system") }
AnyRows == UNION { [1..n -> AnyRow] : n \in 0..MaxRows }

\* Catalogs of 0 to MaxTables user tables T1, T2, ...
MaxTables == 6
Digits == <<"1", "2", "3", "4", "5", "6", "7", "8", "9">>
TableName(i) == <<"T", Digits[i]>>
ManyRows == { [i \in 1..n |-> Row(TableName(i), "Model")] : n \in 0..MaxTables }

DriverRows(catalog) ==
    CASE catalog = "narrow" -> NarrowRows
      [] catalog = "wide" -> WideRows
      [] catalog = "any" -> AnyRows
      [] catalog = "many" -> ManyRows

-----------------------------------------------------------------------------
(* PowerBIConnector.discover_tables: the row filter *)

pDollar == <<"$">>
pDateTableTemplate == <<"D", "a", "t", "e", "T", "a", "b", "l", "e", "T", "e", "m", "p", "l", "a", "t", "e", "_">>

\* str.startswith
StartsWith(s, p) == Len(s) >= Len(p) /\ SubSeq(s, 1, Len(p)) = p

KeepRow_NoSchemaTest(row) ==
    /\ ~StartsWith(row.TABLE_NAME, pDollar)
    /\ ~StartsWith(row.TABLE_NAME, pDateTableTemplate)

KeepRow(row) ==
    /\ ~StartsWith(row.TABLE_NAME, pDollar)
    /\ ~StartsWith(row.TABLE_NAME, pDateTableTemplate)
    /\ ~(row.TABLE_SCHEMA = "$SYSTEM")

\* The loop over schema_table.Rows: tables_list after the rows given.
RECURSIVE FilterRows(_)
FilterRows(rows) ==
    IF rows = <<>> THEN <<>>
    ELSE LET rest == FilterRows(SubSeq(rows, 1, Len(rows) - 1))
             last == rows[Len(rows)]
         IN IF KeepRow(last) THEN Append(rest, last.TABLE_NAME) ELSE rest

-----------------------------------------------------------------------------
(* Jobs: a connector method running on a worker thread *)

NoOut == [st |-> "-", val |-> <<>>]
Ret(v) == [st |-> "ok", val |-> v]
Raise(v) == [st |-> "raise", val |-> v]

eNotConnected == <<"Not connected to Power BI">>
eNoDriver == <<"Pyadomd library not available. Ensure .NET runtime and ADOMD.NET are installed">>

NoJob ==
    [fn |-> "-", arg |-> <<>>, pc |-> "-", rd |-> "-", cs |-> NoConnStr, opened |-> 0,
     queried |-> FALSE, rows |-> <<>>, loc |-> <<>>, prev |-> <<"-">>, out |-> NoOut,
     mrd |-> "-", mopened |-> 0, mout |-> NoOut, bound |-> <<>>, ctx |-> <<>>]

NewJob(f, a) == [NoJob EXCEPT !.fn = f, !.arg = a, !.pc = "start"]

Running(t) == job[t].pc \notin {"-", "done"}
Finished(t) == job[t].pc = "done"

\* A job ends: it returns or raises.
End(j, o) == [j EXCEPT !.pc = "done", !.out = o]

\* PowerBIConnector.connect: the provider connection string.
ConnStr(a) ==
    <<<<"Provider", "MSOLAP">>, <<"Data Source", a.ep>>, <<"Initial Catalog", a.cat>>,
      <<"User ID", "app", a.cid, a.tid>>, <<"Password", a.sec>>>>

connVars == <<connection_string, connected, tables>>
srvVars == <<is_connected, analyzer, connection_lock, loopBlocked, nreq, kind, args, pc, res, frame>>
histVars == <<cacheSrc, lastDisc, lastSchema, lastWrite>>

\* No write to the connection state yet.
NoWrite == [field |-> "-", locked |-> TRUE]
\* Task t writes a field of the connection state: is the connection lock held by the
\* request t works for?
Wrote(field, t) == [field |-> field, locked |-> connection_lock = t]

-----------------------------------------------------------------------------
(* PowerBIConnector.connect *)

\* _check_pyadomd(); self.connection_string = f"Provider=MSOLAP;..."; then
\* `with Pyadomd(self.connection_string):` opens the probe connection or raises.
ConnProbe(t) ==
    /\ job[t].fn = "connect" /\ job[t].pc = "start"
    /\ IF ~env.pyadomd
       THEN /\ job' = [job EXCEPT ![t] = End(@, Raise(eNoDriver))]
            /\ UNCHANGED <<connection_string, handles, lastDisc, lastSchema, lastWrite>>
       ELSE /\ connection_string' = ConnStr(job[t].arg)
            /\ lastWrite' = Wrote("connection_string", t)
            /\ lastDisc' = <<"-">>
            /\ lastSchema' = <<"-">>
            /\ \/ /\ job' = [j \in Tasks |->
                               IF j = t THEN [job[j] EXCEPT !.pc = "set", !.opened = @ + 1]
                               ELSE [job[j] EXCEPT !.prev = <<"-">>]]
                  /\ handles' = handles + 1
               \/ \E m \in DriverMsgs :
                    /\ job' = [j \in Tasks |->
                                 IF j = t THEN [job[j] EXCEPT !.pc = "fail", !.loc = <<m>>]
                                 ELSE [job[j] EXCEPT !.prev = <<"-">>]]
                    /\ UNCHANGED handles
    /\ UNCHANGED <<env, connected, tables, srvVars, cacheSrc>>

\* Variant: the probe succeeds and connect returns True without setting connected.
ConnSet_LeavesFlag(t) ==
    /\ job[t].fn = "connect" /\ job[t].pc = "set"
    /\ handles' = handles - 1
    /\ job' = [job EXCEPT ![t] = End(@, Ret(<<"True">>))]
    /\ UNCHANGED <<env, connection_string, connected, tables, srvVars, histVars>>

\* self.connected = True; return True, leaving the with block: the handle is closed
ConnSet(t) ==
    /\ job[t].fn = "connect" /\ job[t].pc = "set"
    /\ connected' = TRUE
    /\ lastWrite' = Wrote("connected", t)
    /\ handles' = handles - 1
    /\ job' = [job EXCEPT ![t] = End(@, Ret(<<"True">>))]
    /\ UNCHANGED <<env, connection_string, tables, srvVars, cacheSrc, lastDisc, lastSchema>>

\* Variant: the probe fails and connect raises without clearing connected.
ConnFail_KeepsFlag(t) ==
    /\ job[t].fn = "connect" /\ job[t].pc = "fail"
    /\ job' = [job EXCEPT ![t] = End(@, Raise(<<"Connection failed", job[t].loc[1]>>))]
    /\ UNCHANGED <<env, connection_string, connected, tables, srvVars, handles, histVars>>

\* except Exception as e: self.connected = False; raise Exception(f"Connection failed: {e}")
ConnFail(t) ==
    /\ job[t].fn = "connect" /\ job[t].pc = "fail"
    /\ connected' = FALSE
    /\ lastWrite' = Wrote("connected", t)
    /\ job' = [job EXCEPT ![t] = End(@, Raise(<<"Connection failed", job[t].loc[1]>>))]
    /\ UNCHANGED <<env, connection_string, tables, srvVars, handles, cacheSrc, lastDisc, lastSchema>>

-----------------------------------------------------------------------------
(* PowerBIConnector.discover_tables *)

\* No other discover_tables call is past its cache test and before its return.
NoOtherProbe(t) ==
    \A u \in Tasks \ {t} : ~(job[u].fn = "discover_tables" /\ job[u].pc \in {"probe", "store"})

\* Variant: discover_tables without the connected test.
DtCheck_NoConnectedTest(t) ==
    /\ job[t].fn = "discover_tables" /\ job[t].pc = "start"
    /\ job' = [job EXCEPT ![t] =
                 [@ EXCEPT !.rd = IF connected THEN "T" ELSE "F", !.pc = "cache",
                           !.prev = lastDisc]]
    /\ UNCHANGED <<env, connVars, srvVars, handles, histVars>>

\* if not self.connected: raise Exception("Not connected to Power BI")
DtCheck(t) ==
    /\ job[t].fn = "discover_tables" /\ job[t].pc = "start"
    /\ job' = [job EXCEPT ![t] =
                 IF ~connected
                 THEN End([@ EXCEPT !.rd = "F"], Raise(eNotConnected))
                 ELSE [@ EXCEPT !.rd = "T", !.pc = "cache", !.prev = lastDisc]]
    /\ UNCHANGED <<env, connVars, srvVars, handles, histVars>>

\* Variant: discover_tables without the cache test.
DtCache_AlwaysProbes(t) ==
    /\ job[t].fn = "discover_tables" /\ job[t].pc = "cache"
    /\ job' = [job EXCEPT ![t] =
                 IF ~env.pyadomd THEN End(@, Raise(eNoDriver))
                 ELSE [@ EXCEPT !.pc = "probe"]]
    /\ UNCHANGED <<env, connVars, srvVars, handles, histVars>>

\* self._check_pyadomd(); if self.tables: return self.tables
DtCache(t) ==
    /\ job[t].fn = "discover_tables" /\ job[t].pc = "cache"
    /\ job' = [job EXCEPT ![t] =
                 IF ~env.pyadomd THEN End(@, Raise(eNoDriver))
                 ELSE IF tables # <<>> THEN End(@, Ret(tables))
                 ELSE [@ EXCEPT !.pc = "probe"]]
    /\ lastDisc' = IF env.pyadomd /\ tables # <<>>
                   THEN <<"ret", tables, NoOtherProbe(t)>>
                   ELSE lastDisc
    /\ UNCHANGED <<env, connVars, srvVars, handles, cacheSrc, lastSchema, lastWrite>>

\* The job raises out of the try block: the handle, if it was opened, is closed.
DtRaise(j, m) == End(j, Raise(<<"Failed to discover tables", m>>))

\* Variant: the loop over the rows appends to self.tables, so that a row access that
\* raises leaves the names listed before it in the cache.
DtProbe_StoresPartial(t) ==
    /\ job[t].fn = "discover_tables" /\ job[t].pc = "probe"
    /\ handles' = handles + 1 - 1
    /\ \E rows \in DriverRows(env.rows) : \E k \in 0..Len(rows) :
         /\ job' = [job EXCEPT ![t] =
                      IF k = Len(rows)
                      THEN [@ EXCEPT !.cs = connection_string, !.opened = @ + 1,
                                     !.queried = TRUE, !.rows = rows,
                                     !.loc = FilterRows(rows), !.pc = "store"]
                      ELSE DtRaise([@ EXCEPT !.cs = connection_string, !.opened = @ + 1,
                                             !.queried = TRUE, !.rows = rows,
                                             !.loc = FilterRows(SubSeq(rows, 1, k))],
                                   "row")]
         /\ tables' = IF k = Len(rows) THEN tables ELSE FilterRows(SubSeq(rows, 1, k))
    /\ UNCHANGED <<env, connection_string, connected, srvVars, histVars>>

\* with Pyadomd(self.connection_string) as pyadomd_conn: GetSchemaDataSet and the loop
\* over the rows; the handle is closed on the way out.  The handle fails to open, or
\* the probe raises, or it answers no schema table, or it answers rows, of which the
\* loop handles the first k before a row access raises (k = Len(rows): all of them).
DtProbe(t) ==
    /\ job[t].fn = "discover_tables" /\ job[t].pc = "probe"
    /\ handles' = handles + 1 - 1
    /\ \/ \E m \in DriverMsgs :
            job' = [job EXCEPT ![t] = DtRaise([@ EXCEPT !.cs = connection_string], m)]
       \/ \E m \in DriverMsgs :
            job' = [job EXCEPT ![t] =
                      DtRaise([@ EXCEPT !.cs = connection_string, !.opened = @ + 1,
                                        !.queried = TRUE], m)]
       \/ job' = [job EXCEPT ![t] = [@ EXCEPT !.cs = connection_string, !.opened = @ + 1,
                                              !.queried = TRUE, !.rows = <<>>, !.loc = <<>>,
                                              !.pc = "store"]]
       \/ \E rows \in DriverRows(env.rows) : \E k \in 0..Len(rows) :
            job' = [job EXCEPT ![t] =
                      IF k = Len(rows)
                      THEN [@ EXCEPT !.cs = connection_string, !.opened = @ + 1,
                                     !.queried = TRUE, !.rows = rows,
                                     !.loc = FilterRows(rows), !.pc = "store"]
                      ELSE DtRaise([@ EXCEPT !.cs = connection_string, !.opened = @ + 1,
                                             !.queried = TRUE, !.rows = rows,
                                             !.loc = FilterRows(SubSeq(rows, 1, k))],
                                   "row")]
    /\ UNCHANGED <<env, connVars, srvVars, histVars>>

\* Variant: the call adds its names to the cached list instead of replacing it.
DtStore_Extends(t) ==
    /\ job[t].fn = "discover_tables" /\ job[t].pc = "store"
    /\ tables' = tables \o job[t].loc
    /\ cacheSrc' = [rows |-> job[t].rows, cs |-> job[t].cs]
    /\ job' = [job EXCEPT ![t] = End(@, Ret(job[t].loc))]
    /\ lastDisc' = <<"ret", job[t].loc, NoOtherProbe(t)>>
    /\ UNCHANGED <<env, connection_string, connected, srvVars, handles, lastSchema, lastWrite>>

\* self.tables = tables_list; return tables_list
DtStore(t) ==
    /\ job[t].fn = "discover_tables" /\ job[t].pc = "store"
    /\ tables' = job[t].loc
    /\ cacheSrc' = [rows |-> job[t].rows, cs |-> job[t].cs]
    /\ job' = [job EXCEPT ![t] = End(@, Ret(job[t].loc))]
    /\ lastDisc' = <<"ret", job[t].loc, NoOtherProbe(t)>>
    /\ UNCHANGED <<env, connection_string, connected, srvVars, handles, lastSchema, lastWrite>>

-----------------------------------------------------------------------------
(* PowerBIConnector.get_table_schema and get_measures_for_table *)

\* What cursor.description lists for a data table, and what the measure query fetches.
Columns == <<"c1", "c2">>
MeasureRows == { << [name |-> "m1", dax |-> "SUM(x)"] >> }

DataTable(n) == [table_name |-> n, type |-> "data_table", columns |-> Columns]
UnknownTable(n) == [table_name |-> n, type |-> "unknown", measures |-> <<>>]
MeasureTable(n, ms) == [table_name |-> n, type |-> "measure_table", measures |-> ms]

\* The columns of the descriptors the stub connectors of TestTableInfoHandling return:
\* records of name, description and data type.
EnhancedColumnLists ==
    { << [name |-> "Column1", description |-> "First column description", data_type |-> "String"],
         [name |-> "Column2", description |-> "Second column description", data_type |-> "Integer"] >>,
      << [name |-> "Skill Definitions", description |-> "Skill def", data_type |-> "Text"],
         [name |-> "ID", description |-> "Identifier", data_type |-> "Integer"] >> }

\* The descriptor a stub connector returns for table n: a data table with a description.
EnhancedTable(n, cols) ==
    [table_name |-> n, type |-> "data_table", description |-> "Test table", columns |-> cols]

\* The items of schema["columns"] are records, not strings: only the descriptors with
\* a description carry them (get_table_schema builds a list of desc[0] strings).
HasRecordColumns(schema) == "description" \in DOMAIN schema

RECURSIVE JoinFrom(_, _, _)
\* sep.join(items) from item i on
JoinFrom(sep, items, i) ==
    IF i > Len(items) THEN ""
    ELSE IF i = Len(items) THEN items[i]
    ELSE items[i] \o sep \o JoinFrom(sep, items, i + 1)

\* ', '.join(schema['columns']): the joined text, or TypeError ("sequence item 0:
\* expected str instance, dict found") when the items are records
JoinColumns(schema) ==
    IF HasRecordColumns(schema) THEN Raise(<<"TypeError">>)
    ELSE Ret(JoinFrom(", ", schema.columns, 1))
ErrorTable(n, m) == [table_name |-> n, type |-> "error", error |-> m]

\* The last return of get_table_schema, after the call with job record j has taken a step.
SchemaReturned(j, last) ==
    IF j.pc = "done" /\ j.out.st = "ok" THEN <<"ret", j.arg, j.out.val>> ELSE last

\* if not self.connected: raise Exception("Not connected to Power BI")
GsCheck(t) ==
    /\ job[t].fn = "get_table_schema" /\ job[t].pc = "start"
    /\ job' = [job EXCEPT ![t] =
                 IF ~connected
                 THEN End([@ EXCEPT !.rd = "F"], Raise(eNotConnected))
                 ELSE [@ EXCEPT !.rd = "T", !.pc = "probe", !.prev = lastSchema]]
    /\ UNCHANGED <<env, connVars, srvVars, handles, histVars>>

\* get_table_schema raises out of its try block
GsRaise(j, e) == End(j, Raise(<<"Failed to get schema for table", j.arg, e>>))

\* Variant: the handle is opened without `with`, and stays open when conn.cursor() raises.
GsProbe_LeaksOnRaise(t) ==
    /\ job[t].fn = "get_table_schema" /\ job[t].pc = "probe"
    /\ IF ~env.pyadomd
       THEN /\ job' = [job EXCEPT ![t] = End(@, Raise(eNoDriver))]
            /\ UNCHANGED handles
       ELSE \/ \* the handle fails to open
               \E m \in DriverMsgs :
                 /\ job' = [job EXCEPT ![t] = GsRaise([@ EXCEPT !.cs = connection_string], m)]
                 /\ UNCHANGED handles
            \/ \* the probe answers: return the data_table descriptor
               /\ job' = [job EXCEPT ![t] =
                            End([@ EXCEPT !.cs = connection_string, !.opened = @ + 1,
                                          !.queried = TRUE], Ret(DataTable(job[t].arg)))]
               /\ handles' = handles + 1 - 1
            \/ \* conn.cursor() raises
               \E m \in DriverMsgs :
                 /\ job' = [job EXCEPT ![t] =
                              GsRaise([@ EXCEPT !.cs = connection_string, !.opened = @ + 1], m)]
                 /\ handles' = handles + 1
            \/ \* the inner try raises and cursor.close() raises in the bare except
               \E m \in DriverMsgs :
                 /\ job' = [job EXCEPT ![t] =
                              GsRaise([@ EXCEPT !.cs = connection_string, !.opened = @ + 1,
                                                !.queried = TRUE], m)]
                 /\ handles' = handles + 1 - 1
            \/ \* the inner try raises and cursor.close() succeeds: get_measures_for_table
               /\ job' = [job EXCEPT ![t] = [@ EXCEPT !.cs = connection_string, !.opened = @ + 1,
                                                      !.queried = TRUE, !.pc = "m_check"]]
               /\ handles' = handles + 1
    /\ lastSchema' = SchemaReturned(job'[t], lastSchema)
    /\ UNCHANGED <<env, connVars, srvVars, cacheSrc, lastDisc, lastWrite>>

\* self._check_pyadomd(); with Pyadomd(self.connection_string) as conn:
\* cursor = conn.cursor(), then the inner try: EVALUATE TOPN(1, table), the column
\* names, cursor.close(); in its bare except: cursor.close() and the call of
\* get_measures_for_table.
GsProbe(t) ==
    /\ job[t].fn = "get_table_schema" /\ job[t].pc = "probe"
    /\ IF ~env.pyadomd
       THEN /\ job' = [job EXCEPT ![t] = End(@, Raise(eNoDriver))]
            /\ UNCHANGED handles
       ELSE \/ \* the handle fails to open
               \E m \in DriverMsgs :
                 /\ job' = [job EXCEPT ![t] = GsRaise([@ EXCEPT !.cs = connection_string], m)]
                 /\ UNCHANGED handles
            \/ \* the probe answers: return the data_table descriptor
               /\ job' = [job EXCEPT ![t] =
                            End([@ EXCEPT !.cs = connection_string, !.opened = @ + 1,
                                          !.queried = TRUE], Ret(DataTable(job[t].arg)))]
               /\ handles' = handles + 1 - 1
            \/ \* conn.cursor() raises
               \E m \in DriverMsgs :
                 /\ job' = [job EXCEPT ![t] =
                              GsRaise([@ EXCEPT !.cs = connection_string, !.opened = @ + 1], m)]
                 /\ handles' = handles + 1 - 1
            \/ \* the inner try raises and cursor.close() raises in the bare except
               \E m \in DriverMsgs :
                 /\ job' = [job EXCEPT ![t] =
                              GsRaise([@ EXCEPT !.cs = connection_string, !.opened = @ + 1,
                                                !.queried = TRUE], m)]
                 /\ handles' = handles + 1 - 1
            \/ \* the inner try raises and cursor.close() succeeds: get_measures_for_table
               /\ job' = [job EXCEPT ![t] = [@ EXCEPT !.cs = connection_string, !.opened = @ + 1,
                                                      !.queried = TRUE, !.pc = "m_check"]]
               /\ handles' = handles + 1
    /\ lastSchema' = SchemaReturned(job'[t], lastSchema)
    /\ UNCHANGED <<env, connVars, srvVars, cacheSrc, lastDisc, lastWrite>>

\* get_measures_for_table: if not self.connected: raise ...; self._check_pyadomd().
\* The exception leaves get_table_schema's with block and is re-raised by its except.
GmCheck(t) ==
    /\ job[t].fn = "get_table_schema" /\ job[t].pc = "m_check"
    /\ IF ~connected \/ ~env.pyadomd
       THEN LET e == IF ~connected THEN eNotConnected ELSE eNoDriver
            IN /\ job' = [job EXCEPT ![t] =
                            GsRaise([@ EXCEPT !.mrd = IF connected THEN "T" ELSE "F",
                                              !.mout = Raise(e)], e)]
               /\ handles' = handles - 1
       ELSE /\ job' = [job EXCEPT ![t] = [@ EXCEPT !.mrd = "T", !.pc = "m_probe"]]
            /\ UNCHANGED handles
    /\ UNCHANGED <<env, connVars, srvVars, histVars>>

\* get_measures_for_table returns d, and get_table_schema returns it in turn.
GmReturn(j, d) == End([j EXCEPT !.mout = Ret(d)], Ret(d))

\* get_measures_for_table: with Pyadomd(self.connection_string) as conn: the query of
\* the table's ID in $SYSTEM.TMSCHEMA_TABLES, then of its measures in
\* $SYSTEM.TMSCHEMA_MEASURES; its except returns the error descriptor.  Its handle
\* and then get_table_schema's are closed on the way out.
GmProbe(t) ==
    /\ job[t].fn = "get_table_schema" /\ job[t].pc = "m_probe"
    /\ \/ \* the handle fails to open
          \E m \in DriverMsgs :
            /\ job' = [job EXCEPT ![t] = GmReturn(@, ErrorTable(job[t].arg, m))]
            /\ handles' = handles - 1
       \/ \* a cursor, a query or a fetch raises
          \E m \in DriverMsgs :
            /\ job' = [job EXCEPT ![t] =
                         GmReturn([@ EXCEPT !.mopened = @ + 1], ErrorTable(job[t].arg, m))]
            /\ handles' = handles + 1 - 2
       \/ \* fetchone() finds no ID
          /\ job' = [job EXCEPT ![t] =
                       GmReturn([@ EXCEPT !.mopened = @ + 1], UnknownTable(job[t].arg))]
          /\ handles' = handles + 1 - 2
       \/ \* the measures are listed
          \E ms \in MeasureRows :
            /\ job' = [job EXCEPT ![t] =
                         GmReturn([@ EXCEPT !.mopened = @ + 1], MeasureTable(job[t].arg, ms))]
            /\ handles' = handles + 1 - 2
    /\ lastSchema' = SchemaReturned(job'[t], lastSchema)
    /\ UNCHANGED <<env, connVars, srvVars, cacheSrc, lastDisc, lastWrite>>

-----------------------------------------------------------------------------
(* PowerBIConnector.execute_dax_query and get_sample_data *)

IsExec(t) == job[t].fn \in {"execute_dax_query", "get_sample_data"}

\* The result sets the driver may answer a query with.
\* What a query may answer: rows of cells, a cell named by the Python value the driver
\* hands over: an int, or a bytes object, which json cannot encode.
ResultSets == { << [c1 |-> "1", c2 |-> "2"] >>, << [c1 |-> "1", c2 |-> "bytes"] >> }

\* PowerBIJSONEncoder.default ends in super().default(obj), which raises TypeError
CanEncode(v) == v # "bytes"
RowsEncode(rs) == \A n \in 1..Len(rs) : CanEncode(rs[n].c1) /\ CanEncode(rs[n].c2)

\* safe_json_dumps of a list of rows: the JSON text, or TypeError
safe_json_dumps(rs) == IF RowsEncode(rs) THEN Ret(<<"json", rs>>) ELSE Raise(<<"TypeError">>)

\* safe_json_dumps of the sample_data dict succeeds
SamplesEncode(d) == \A n \in 1..Len(d) : RowsEncode(d[n][2])

\* get_sample_data: dax_query = f"EVALUATE TOPN({num_rows}, '{table_name}')"
SampleQuery(table_name, num_rows) == <<"EVALUATE TOPN", num_rows, table_name>>

\* Variant: execute_dax_query tests the driver before the connected flag.
ExCheck_DriverFirst(t) ==
    /\ IsExec(t) /\ job[t].pc = "start"
    /\ job' = [job EXCEPT ![t] =
                 IF ~env.pyadomd
                 THEN End([@ EXCEPT !.rd = IF connected THEN "T" ELSE "F"], Raise(eNoDriver))
                 ELSE IF ~connected
                 THEN End([@ EXCEPT !.rd = "F"], Raise(eNotConnected))
                 ELSE [@ EXCEPT !.rd = "T", !.pc = "run"]]
    /\ UNCHANGED <<env, connVars, srvVars, handles, histVars>>

\* if not self.connected: raise Exception("Not connected to Power BI")
ExCheck(t) ==
    /\ IsExec(t) /\ job[t].pc = "start"
    /\ job' = [job EXCEPT ![t] =
                 IF ~connected
                 THEN End([@ EXCEPT !.rd = "F"], Raise(eNotConnected))
                 ELSE [@ EXCEPT !.rd = "T", !.pc = "run"]]
    /\ UNCHANGED <<env, connVars, srvVars, handles, histVars>>

\* self._check_pyadomd(); with Pyadomd(self.connection_string) as conn:
\* cursor.execute(cleaned_query); fetchall(); close(): rows, or the driver raises
ExRun(t) ==
    /\ IsExec(t) /\ job[t].pc = "run"
    /\ IF ~env.pyadomd
       THEN /\ job' = [job EXCEPT ![t] = End(@, Raise(eNoDriver))]
            /\ UNCHANGED handles
       ELSE \/ \E m \in DriverMsgs :
                 /\ job' = [job EXCEPT ![t] =
                              End([@ EXCEPT !.cs = connection_string],
                                  Raise(<<"DAX query failed", m>>))]
                 /\ UNCHANGED handles
            \/ \E m \in DriverMsgs :
                 /\ job' = [job EXCEPT ![t] =
                              End([@ EXCEPT !.cs = connection_string, !.opened = @ + 1,
                                            !.queried = TRUE],
                                  Raise(<<"DAX query failed", m>>))]
                 /\ handles' = handles + 1 - 1
            \/ \E rs \in ResultSets :
                 /\ job' = [job EXCEPT ![t] =
                              End([@ EXCEPT !.cs = connection_string, !.opened = @ + 1,
                                            !.queried = TRUE], Ret(rs))]
                 /\ handles' = handles + 1 - 1
    /\ UNCHANGED <<env, connVars, srvVars, histVars>>

-----------------------------------------------------------------------------
(* DataAnalyzer.generate_dax_query, interpret_results and suggest_questions *)

IsAnalyzerCall(j) == j.fn \in {"generate_dax_query", "interpret_results", "suggest_questions"}

\* What the language model may answer: a DAX query (after clean_dax_query), an
\* interpretation, a JSON array of questions or a text that is no JSON.
LlmQueries == {"EVALUATE Sales"}
LlmAnswers == {"answer"}
LlmQuestions == {<<"q?">>}
FallbackQuestions ==
    <<"What are the total sales?", "Show me the top 10 products",
      "What is the trend over time?", "Which region has the highest revenue?",
      "What are the key metrics?">>
LlmMsgs == {"openai error"}

\* self.context of the DataAnalyzer object the call is bound to: the server's
\* analyzer, or, once a later connect has replaced it, what it held then.
BoundContext(j) == IF j.bound # <<>> THEN j.bound[1] ELSE analyzer.context

\* generate_dax_query: the prompt reads self.context['schemas']
AnReadSchemas(t) ==
    /\ job[t].fn = "generate_dax_query" /\ job[t].pc = "start"
    /\ job' = [job EXCEPT ![t] = [@ EXCEPT !.ctx = <<BoundContext(job[t]).schemas>>,
                                           !.pc = "read"]]
    /\ UNCHANGED <<env, connVars, srvVars, handles, histVars>>

\* generate_dax_query: the prompt reads self.context['sample_data']; then
\* self.client.chat.completions.create(...) answers or raises
AnGenerate(t) ==
    /\ job[t].fn = "generate_dax_query" /\ job[t].pc = "read"
    /\ LET j == [job[t] EXCEPT !.ctx = Append(@, BoundContext(job[t]).sample_data)]
       IN IF ~SamplesEncode(BoundContext(job[t]).sample_data)
          THEN job' = [job EXCEPT ![t] = End(j, Raise(<<"TypeError">>))]
          ELSE \/ \E m \in LlmMsgs : job' = [job EXCEPT ![t] = End(j, Raise(<<m>>))]
               \/ \E q \in LlmQueries : job' = [job EXCEPT ![t] = End(j, Ret(q))]
    /\ UNCHANGED <<env, connVars, srvVars, handles, histVars>>

\* interpret_results: the prompt holds safe_json_dumps(query_results); then
\* self.client.chat.completions.create(...) answers or raises
AnInterpret(t) ==
    /\ job[t].fn = "interpret_results" /\ job[t].pc = "start"
    /\ IF ~RowsEncode(job[t].arg)
       THEN job' = [job EXCEPT ![t] = End(@, Raise(<<"TypeError">>))]
       ELSE \/ \E m \in LlmMsgs : job' = [job EXCEPT ![t] = End(@, Raise(<<m>>))]
            \/ \E x \in LlmAnswers : job' = [job EXCEPT ![t] = End(@, Ret(x))]
    /\ UNCHANGED <<env, connVars, srvVars, handles, histVars>>

\* suggest_questions: the prompt reads self.context['schemas']; the model raises, or
\* answers a JSON array, or answers something json.loads rejects (the fixed list)
AnSuggest(t) ==
    /\ job[t].fn = "suggest_questions" /\ job[t].pc = "start"
    /\ LET j == [job[t] EXCEPT !.ctx = <<BoundContext(job[t]).schemas>>]
       IN \/ \E m \in LlmMsgs : job' = [job EXCEPT ![t] = End(j, Raise(<<m>>))]
          \/ \E qs \in LlmQuestions : job' = [job EXCEPT ![t] = End(j, Ret(qs))]
          \/ job' = [job EXCEPT ![t] = End(j, Ret(FallbackQuestions))]
    /\ UNCHANGED <<env, connVars, srvVars, handles, histVars>>

-----------------------------------------------------------------------------
(* PowerBIMCPServer: the request-handling loop *)

NoArgs == [present |-> FALSE]

\* The arguments a connect_powerbi request may carry (a key that is absent is None).
ConnectArgs ==
    { [present |-> TRUE, ep |-> "ep1", cat |-> "catA", tid |-> "t1", cid |-> "c1", sec |-> "s1"],
      [present |-> TRUE, ep |-> "ep2", cat |-> "catB", tid |-> None, cid |-> None, sec |-> None],
      [present |-> TRUE, ep |-> "ep1", cat |-> "catA", tid |-> "t1", cid |-> None, sec |-> ""],
      [present |-> TRUE, ep |-> None, cat |-> "catA", tid |-> "t1", cid |-> "c1", sec |-> "s1"],
      [present |-> TRUE, ep |-> "ep2", cat |-> None, tid |-> "t1", cid |-> "c1", sec |-> "s1"] }

\* The process environments: whether pyadomd was imported, whether OPENAI_API_KEY
\* is set, the DEFAULT_TENANT_ID, DEFAULT_CLIENT_ID, DEFAULT_CLIENT_SECRET values,
\* and the catalog the driver answers from.
Envs ==
    { [pyadomd |-> TRUE, key |-> FALSE, tid |-> None, cid |-> None, sec |-> None, rows |-> "wide"],
      [pyadomd |-> TRUE, key |-> TRUE, tid |-> "dt", cid |-> "dc", sec |-> "ds", rows |-> "narrow"],
      [pyadomd |-> FALSE, key |-> TRUE, tid |-> "dt", cid |-> "dc", sec |-> "ds", rows |-> "narrow"] }

EmptyContext == [tables |-> <<>>, schemas |-> <<>>, sample_data |-> <<>>]
NoAnalyzer == [on |-> FALSE, id |-> 0, context |-> EmptyContext]
\* DataAnalyzer(api_key), created by connect request r
NewAnalyzer(r) == [on |-> TRUE, id |-> r, context |-> EmptyContext]

\* x or y
Or(x, y) == IF Truthy(x) THEN x ELSE y

tNotConnected == <<"Not connected to Power BI. Please connect first.">>
tMissingCredentials == <<"Missing credentials. Provide tenant_id, client_id, and client_secret">>

\* The loop thread can run a coroutine segment: it is not inside lock.acquire().
LoopFree == loopBlocked = 0

\* The next request arrives and its handler is entered.
Arrives(r) == LoopFree /\ r = nreq + 1 /\ r \in DOMAIN pc /\ pc[r] = "new"

\* A coroutine returns its text.
Return(r, text) ==
    /\ pc' = [pc EXCEPT ![r] = "done"]
    /\ res' = [res EXCEPT ![r] = text]

\* `except Exception as e: self.is_connected = False` stands outside
\* `with self.connection_lock:`: the exception has left the with block, which
\* released the lock, before the clause writes the flag.
WroteInExcept(field) == [field |-> field, locked |-> FALSE]

\* Variant: the credentials are taken from the request alone, without the DEFAULT_* values.
ConnectBody_NoDefaults(r, a) ==
    IF ~a.present
    THEN \* arguments is None: arguments.get raises AttributeError, caught by the handler
         /\ is_connected' = FALSE
         /\ lastWrite' = WroteInExcept("is_connected")
         /\ Return(r, <<"Connection failed", <<"AttributeError">>>>)
         /\ UNCHANGED <<connection_lock, job>>
    ELSE LET tenant_id == a.tid
             client_id == a.cid
             client_secret == a.sec
         IN IF ~(Truthy(tenant_id) /\ Truthy(client_id) /\ Truthy(client_secret))
            THEN /\ Return(r, tMissingCredentials)
                 /\ UNCHANGED <<is_connected, connection_lock, job, lastWrite>>
            ELSE IF a.ep = None \/ a.cat = None
            THEN \* arguments["xmla_endpoint"] or arguments["initial_catalog"]: KeyError
                 /\ is_connected' = FALSE
                 /\ lastWrite' = WroteInExcept("is_connected")
                 /\ Return(r, <<"Connection failed", <<"KeyError">>>>)
                 /\ UNCHANGED <<connection_lock, job>>
            ELSE /\ connection_lock' = r
                 /\ job' = [job EXCEPT ![r] =
                              NewJob("connect", [ep |-> a.ep, tid |-> tenant_id, cid |-> client_id,
                                                 sec |-> client_secret, cat |-> a.cat])]
                 /\ pc' = [pc EXCEPT ![r] = "await_connect"]
                 /\ UNCHANGED <<is_connected, res, lastWrite>>

\* _handle_connect from inside `with self.connection_lock:` to the first await or return.
ConnectBody(r, a) ==
    IF ~a.present
    THEN \* arguments is None: arguments.get raises AttributeError, caught by the handler
         /\ is_connected' = FALSE
         /\ lastWrite' = WroteInExcept("is_connected")
         /\ Return(r, <<"Connection failed", <<"AttributeError">>>>)
         /\ UNCHANGED <<connection_lock, job>>
    ELSE LET tenant_id == Or(a.tid, env.tid)
             client_id == Or(a.cid, env.cid)
             client_secret == Or(a.sec, env.sec)
         IN IF ~(Truthy(tenant_id) /\ Truthy(client_id) /\ Truthy(client_secret))
            THEN /\ Return(r, tMissingCredentials)
                 /\ UNCHANGED <<is_connected, connection_lock, job, lastWrite>>
            ELSE IF a.ep = None \/ a.cat = None
            THEN \* arguments["xmla_endpoint"] or arguments["initial_catalog"]: KeyError
                 /\ is_connected' = FALSE
                 /\ lastWrite' = WroteInExcept("is_connected")
                 /\ Return(r, <<"Connection failed", <<"KeyError">>>>)
                 /\ UNCHANGED <<connection_lock, job>>
            ELSE /\ connection_lock' = r
                 /\ job' = [job EXCEPT ![r] =
                              NewJob("connect", [ep |-> a.ep, tid |-> tenant_id, cid |-> client_id,
                                                 sec |-> client_secret, cat |-> a.cat])]
                 /\ pc' = [pc EXCEPT ![r] = "await_connect"]
                 /\ UNCHANGED <<is_connected, res, lastWrite>>

\* Variant: no connection lock.
LockFreeFor_NoLock(r) == TRUE

\* `with self.connection_lock:` takes the lock if it is free; if it is held, acquire()
\* blocks the calling thread, which is the loop thread.
LockFreeFor(r) == connection_lock = 0

\* handle_call_tool(name = "connect_powerbi"): _handle_connect up to its first await
CallConnect(r, a) ==
    /\ Arrives(r)
    /\ nreq' = r
    /\ kind' = [kind EXCEPT ![r] = "connect_powerbi"]
    /\ args' = [args EXCEPT ![r] = a]
    /\ IF LockFreeFor(r)
       THEN /\ ConnectBody(r, a)
            /\ UNCHANGED loopBlocked
       ELSE /\ loopBlocked' = r
            /\ pc' = [pc EXCEPT ![r] = "acquiring"]
            /\ UNCHANGED <<is_connected, connection_lock, job, res, lastWrite>>
    /\ UNCHANGED <<env, connVars, analyzer, frame, handles, cacheSrc, lastDisc, lastSchema>>

\* Variant: the priming task is created after every successful connect.
ConnectResume_AlwaysPrimes(r) ==
    /\ LoopFree /\ pc[r] = "await_connect" /\ Finished(r)
    /\ connection_lock' = 0
    /\ job' = [job EXCEPT ![r] = NoJob]
    /\ IF job[r].out.st = "raise"
       THEN /\ is_connected' = FALSE
            /\ lastWrite' = WroteInExcept("is_connected")
            /\ Return(r, <<"Connection failed", job[r].out.val>>)
            /\ UNCHANGED <<analyzer, kind>>
       ELSE /\ analyzer' = IF env.key THEN NewAnalyzer(r) ELSE NoAnalyzer
            /\ is_connected' = TRUE
            /\ lastWrite' = Wrote("is_connected", r)
            /\ kind' = [kind EXCEPT ![PrimeOf(r)] = "prime"]
            /\ pc' = [pc EXCEPT ![r] = "done", ![PrimeOf(r)] = "ready"]
            /\ res' = [res EXCEPT ![r] = <<"Successfully connected to Power BI dataset", args[r].cat>>]
    /\ UNCHANGED <<env, connVars, loopBlocked, nreq, args, frame, handles, cacheSrc, lastDisc,
                   lastSchema>>

\* Variant: a successful connect cancels the priming tasks still under way.
ConnectResume_CancelsPriming(r) ==
    /\ LoopFree /\ pc[r] = "await_connect" /\ Finished(r)
    /\ connection_lock' = 0
    /\ IF job[r].out.st = "raise"
       THEN /\ is_connected' = FALSE
            /\ lastWrite' = WroteInExcept("is_connected")
            /\ Return(r, <<"Connection failed", job[r].out.val>>)
            /\ job' = [job EXCEPT ![r] = NoJob]
            /\ UNCHANGED <<analyzer, kind, frame>>
       ELSE LET cancelled == {MaxReq + q : q \in {x \in 1..MaxReq : x # r /\ kind[MaxReq + x] = "prime"
                                                                  /\ pc[MaxReq + x] # "done"}}
            IN
            /\ job' = [t \in Tasks |->
                         IF t = r \/ t \in cancelled THEN NoJob
                         ELSE IF IsAnalyzerCall(job[t]) /\ job[t].bound = <<>>
                                 /\ job[t].pc # "done"
                         THEN [job[t] EXCEPT !.bound = <<analyzer.context>>]
                         ELSE job[t]]
            /\ frame' = [t \in Tasks |->
                           IF t \in cancelled
                           THEN [tables |-> <<>>, i |-> 0, schemas |-> <<>>, sample_data |-> <<>>]
                           ELSE frame[t]]
            /\ analyzer' = IF env.key THEN NewAnalyzer(r) ELSE NoAnalyzer
            /\ is_connected' = TRUE
            /\ lastWrite' = Wrote("is_connected", r)
            /\ IF env.key
               THEN /\ kind' = [kind EXCEPT ![MaxReq + r] = "prime"]
                    /\ pc' = [t \in Tasks |-> IF t = r \/ t \in cancelled THEN "done"
                                              ELSE IF t = MaxReq + r THEN "ready" ELSE pc[t]]
                    /\ res' = [res EXCEPT ![r] = <<"Successfully connected to Power BI dataset", args[r].cat>>]
               ELSE /\ pc' = [t \in Tasks |-> IF t = r \/ t \in cancelled THEN "done" ELSE pc[t]]
                    /\ res' = [res EXCEPT ![r] = <<"Successfully connected to Power BI dataset", args[r].cat>>]
                    /\ UNCHANGED kind
    /\ UNCHANGED <<env, connVars, loopBlocked, nreq, args, handles, cacheSrc, lastDisc,
                   lastSchema>>

\* _handle_connect after `await run_in_executor(None, self.connector.connect, ...)`
ConnectResume(r) ==
    /\ LoopFree /\ pc[r] = "await_connect" /\ Finished(r)
    /\ connection_lock' = 0
    /\ IF job[r].out.st = "raise"
       THEN /\ is_connected' = FALSE
            /\ lastWrite' = WroteInExcept("is_connected")
            /\ Return(r, <<"Connection failed", job[r].out.val>>)
            /\ job' = [job EXCEPT ![r] = NoJob]
            /\ UNCHANGED <<analyzer, kind>>
       ELSE \* self.analyzer is rebound: calls in flight keep the DataAnalyzer they have
            /\ job' = [t \in Tasks |->
                         IF t = r THEN NoJob
                         ELSE IF IsAnalyzerCall(job[t]) /\ job[t].bound = <<>>
                                 /\ job[t].pc # "done"
                         THEN [job[t] EXCEPT !.bound = <<analyzer.context>>]
                         ELSE job[t]]
            /\ analyzer' = IF env.key THEN NewAnalyzer(r) ELSE NoAnalyzer
            /\ is_connected' = TRUE
            /\ lastWrite' = Wrote("is_connected", r)
            /\ IF env.key
               THEN \* asyncio.create_task(self._async_prepare_context())
                    /\ kind' = [kind EXCEPT ![PrimeOf(r)] = "prime"]
                    /\ pc' = [pc EXCEPT ![r] = "done", ![PrimeOf(r)] = "ready"]
                    /\ res' = [res EXCEPT ![r] = <<"Successfully connected to Power BI dataset", args[r].cat>>]
               ELSE /\ Return(r, <<"Successfully connected to Power BI dataset", args[r].cat>>)
                    /\ UNCHANGED kind
    /\ UNCHANGED <<env, connVars, loopBlocked, nreq, args, frame, handles, cacheSrc, lastDisc,
                   lastSchema>>

\* Variant: list_tables answers an error while the analyzer has no context yet.
CallListTables_NeedsContext(r) ==
    /\ Arrives(r)
    /\ nreq' = r
    /\ kind' = [kind EXCEPT ![r] = "list_tables"]
    /\ IF ~is_connected
       THEN /\ Return(r, <<"Not connected to Power BI. Please connect first using 'connect_powerbi'.">>)
            /\ UNCHANGED job
       ELSE IF analyzer.on /\ analyzer.context = EmptyContext
       THEN /\ Return(r, <<"Error listing tables", <<"context not ready">>>>)
            /\ UNCHANGED job
       ELSE /\ job' = [job EXCEPT ![r] = NewJob("discover_tables", <<>>)]
            /\ pc' = [pc EXCEPT ![r] = "await_discover"]
            /\ UNCHANGED res
    /\ UNCHANGED <<env, connVars, is_connected, analyzer, connection_lock, loopBlocked,
                   args, frame, handles, histVars>>

\* handle_call_tool(name = "list_tables"): _handle_list_tables up to its await
CallListTables(r) ==
    /\ Arrives(r)
    /\ nreq' = r
    /\ kind' = [kind EXCEPT ![r] = "list_tables"]
    /\ IF ~is_connected
       THEN /\ Return(r, <<"Not connected to Power BI. Please connect first using 'connect_powerbi'.">>)
            /\ UNCHANGED job
       ELSE /\ job' = [job EXCEPT ![r] = NewJob("discover_tables", <<>>)]
            /\ pc' = [pc EXCEPT ![r] = "await_discover"]
            /\ UNCHANGED res
    /\ UNCHANGED <<env, connVars, is_connected, analyzer, connection_lock, loopBlocked,
                   args, frame, handles, histVars>>

\* _handle_list_tables after `await run_in_executor(None, self.connector.discover_tables)`
ListTablesResume(r) ==
    /\ LoopFree /\ pc[r] = "await_discover" /\ Finished(r)
    /\ job' = [job EXCEPT ![r] = NoJob]
    /\ Return(r, IF job[r].out.st = "raise" THEN <<"Error listing tables", job[r].out.val>>
                 ELSE IF job[r].out.val = <<>> THEN <<"No tables found in the dataset.">>
                 ELSE <<"Available tables", job[r].out.val>>)
    /\ UNCHANGED <<env, connVars, is_connected, analyzer, connection_lock, loopBlocked,
                   nreq, kind, args, frame, handles, histVars>>

\* The table_name values a get_table_info request may carry (<<>>: absent or empty).
TableArgs ==
    { [present |-> TRUE, table_name |-> nSales],
      [present |-> TRUE, table_name |-> <<>>] }

\* The dax_query values an execute_dax request may carry.
DaxArgs ==
    { [present |-> TRUE, dax_query |-> "EVALUATE Sales"],
      [present |-> TRUE, dax_query |-> ""] }

\* handle_call_tool's except clause: f"Error executing {name}: {e}"
ErrorExecuting(name, e) == <<"Error executing", name, e>>

\* Variant: the AttributeError of arguments.get on absent arguments leaves the
\* dispatcher.
CallGetTableInfo_Propagates(r, a) ==
    /\ Arrives(r)
    /\ nreq' = r
    /\ kind' = [kind EXCEPT ![r] = "get_table_info"]
    /\ args' = [args EXCEPT ![r] = a]
    /\ IF ~is_connected
       THEN Return(r, tNotConnected) /\ UNCHANGED job
       ELSE IF ~a.present
       THEN pc' = [pc EXCEPT ![r] = "raised"] /\ UNCHANGED <<job, res>>
       ELSE IF a.table_name = <<>>
       THEN Return(r, <<"Please provide a table name.">>) /\ UNCHANGED job
       ELSE /\ job' = [job EXCEPT ![r] = NewJob("get_table_schema", a.table_name)]
            /\ pc' = [pc EXCEPT ![r] = "await_schema"]
            /\ UNCHANGED res
    /\ UNCHANGED <<env, connVars, is_connected, analyzer, connection_lock, loopBlocked,
                   frame, handles, histVars>>

\* handle_call_tool(name = "get_table_info"): _handle_get_table_info up to its first await
CallGetTableInfo(r, a) ==
    /\ Arrives(r)
    /\ nreq' = r
    /\ kind' = [kind EXCEPT ![r] = "get_table_info"]
    /\ args' = [args EXCEPT ![r] = a]
    /\ IF ~is_connected
       THEN Return(r, tNotConnected) /\ UNCHANGED job
       ELSE IF ~a.present
       THEN Return(r, ErrorExecuting("get_table_info", <<"AttributeError">>)) /\ UNCHANGED job
       ELSE IF a.table_name = <<>>
       THEN Return(r, <<"Please provide a table name.">>) /\ UNCHANGED job
       ELSE /\ job' = [job EXCEPT ![r] = NewJob("get_table_schema", a.table_name)]
            /\ pc' = [pc EXCEPT ![r] = "await_schema"]
            /\ UNCHANGED res
    /\ UNCHANGED <<env, connVars, is_connected, analyzer, connection_lock, loopBlocked,
                   frame, handles, histVars>>

\* _handle_get_table_info after `await run_in_executor(None, self.connector.get_table_schema, ...)`
TableInfoSchemaResume(r) ==
    /\ LoopFree /\ pc[r] = "await_schema" /\ kind[r] = "get_table_info" /\ Finished(r)
    /\ LET o == job[r].out
           n == args[r].table_name
       IN IF o.st = "raise"
          THEN /\ Return(r, <<"Error getting table info", o.val>>)
               /\ job' = [job EXCEPT ![r] = NoJob]
          ELSE IF o.val.type = "data_table"
          THEN /\ job' = [job EXCEPT ![r] = NewJob("get_sample_data", SampleQuery(n, InfoSampleRows))]
               /\ pc' = [pc EXCEPT ![r] = "await_sample"]
               /\ res' = [res EXCEPT ![r] = <<"schema", o.val>>]
          ELSE IF o.val.type = "measure_table"
          THEN /\ Return(r, <<"Table", n, "Type: Measure Table", o.val.measures>>)
               /\ job' = [job EXCEPT ![r] = NoJob]
          ELSE /\ Return(r, <<"Table", n, "Type", o.val.type>>)
               /\ job' = [job EXCEPT ![r] = NoJob]
    /\ UNCHANGED <<env, connVars, is_connected, analyzer, connection_lock, loopBlocked,
                   nreq, kind, args, frame, handles, histVars>>

\* _handle_get_table_info after `await run_in_executor(None, self.connector.get_sample_data, ...)`
TableInfoSampleResume(r) ==
    /\ LoopFree /\ pc[r] = "await_sample" /\ kind[r] = "get_table_info" /\ Finished(r)
    /\ LET schema == res[r][2]
           n == args[r].table_name
       IN Return(r, IF job[r].out.st = "raise"
                    THEN <<"Error getting table info", job[r].out.val>>
                    ELSE IF JoinColumns(schema).st = "raise"
                    THEN <<"Error getting table info", JoinColumns(schema).val>>
                    ELSE IF safe_json_dumps(job[r].out.val).st = "raise"
                    THEN <<"Error getting table info", safe_json_dumps(job[r].out.val).val>>
                    ELSE <<"Table", n, "Type: Data Table", "Columns", JoinColumns(schema).val,
                           "Sample data", safe_json_dumps(job[r].out.val).val>>)
    /\ job' = [job EXCEPT ![r] = NoJob]
    /\ UNCHANGED <<env, connVars, is_connected, analyzer, connection_lock, loopBlocked,
                   nreq, kind, args, frame, handles, histVars>>

\* Variant: execute_dax without the test of dax_query.
CallExecuteDax_NoValidation(r, a) ==
    /\ Arrives(r)
    /\ nreq' = r
    /\ kind' = [kind EXCEPT ![r] = "execute_dax"]
    /\ args' = [args EXCEPT ![r] = a]
    /\ IF ~is_connected
       THEN Return(r, tNotConnected) /\ UNCHANGED job
       ELSE IF ~a.present
       THEN Return(r, ErrorExecuting("execute_dax", <<"AttributeError">>)) /\ UNCHANGED job
       ELSE /\ job' = [job EXCEPT ![r] = NewJob("execute_dax_query", a.dax_query)]
            /\ pc' = [pc EXCEPT ![r] = "await_dax"]
            /\ UNCHANGED res
    /\ UNCHANGED <<env, connVars, is_connected, analyzer, connection_lock, loopBlocked,
                   frame, handles, histVars>>

\* handle_call_tool(name = "execute_dax"): _handle_execute_dax up to its await
CallExecuteDax(r, a) ==
    /\ Arrives(r)
    /\ nreq' = r
    /\ kind' = [kind EXCEPT ![r] = "execute_dax"]
    /\ args' = [args EXCEPT ![r] = a]
    /\ IF ~is_connected
       THEN Return(r, tNotConnected) /\ UNCHANGED job
       ELSE IF ~a.present
       THEN Return(r, ErrorExecuting("execute_dax", <<"AttributeError">>)) /\ UNCHANGED job
       ELSE IF ~Truthy(a.dax_query)
       THEN Return(r, <<"Please provide a DAX query.">>) /\ UNCHANGED job
       ELSE /\ job' = [job EXCEPT ![r] = NewJob("execute_dax_query", a.dax_query)]
            /\ pc' = [pc EXCEPT ![r] = "await_dax"]
            /\ UNCHANGED res
    /\ UNCHANGED <<env, connVars, is_connected, analyzer, connection_lock, loopBlocked,
                   frame, handles, histVars>>

\* _handle_execute_dax after `await run_in_executor(None, self.connector.execute_dax_query, ...)`
ExecuteDaxResume(r) ==
    /\ LoopFree /\ pc[r] = "await_dax" /\ Finished(r)
    /\ Return(r, IF job[r].out.st = "raise" THEN <<"DAX execution error", job[r].out.val>>
                 ELSE IF safe_json_dumps(job[r].out.val).st = "raise"
                 THEN <<"DAX execution error", safe_json_dumps(job[r].out.val).val>>
                 ELSE safe_json_dumps(job[r].out.val).val)
    /\ job' = [job EXCEPT ![r] = NoJob]
    /\ UNCHANGED <<env, connVars, is_connected, analyzer, connection_lock, loopBlocked,
                   nreq, kind, args, frame, handles, histVars>>

\* Tool names the dispatcher does not know.
UnknownNames == {"drop_table"}

\* handle_call_tool(name): no branch matches, the text is returned at once
CallUnknownTool(r, name) ==
    /\ Arrives(r)
    /\ nreq' = r
    /\ kind' = [kind EXCEPT ![r] = name]
    /\ Return(r, <<"Unknown tool", name>>)
    /\ UNCHANGED <<env, connVars, is_connected, analyzer, connection_lock, loopBlocked,
                   args, job, frame, handles, histVars>>

\* handle_list_tools: the advertised tool names
AdvertisedTools(e) ==
    <<"connect_powerbi", "list_tables", "get_table_info", "execute_dax">>
    \o (IF e.key THEN <<"query_data", "suggest_questions">> ELSE <<>>)

ListTools(r) ==
    /\ Arrives(r)
    /\ nreq' = r
    /\ kind' = [kind EXCEPT ![r] = "tools/list"]
    /\ Return(r, AdvertisedTools(env))
    /\ UNCHANGED <<env, connVars, is_connected, analyzer, connection_lock, loopBlocked,
                   args, job, frame, handles, histVars>>

tNotConfigured == <<"OpenAI API key not configured.">>

\* The question values a query_data request may carry.
QuestionArgs ==
    { [present |-> TRUE, question |-> "q1"],
      [present |-> TRUE, question |-> ""] }

\* Variant: query_data dispatched without the key test.
CallQueryData_NoKeyTest(r, a) ==
    /\ Arrives(r)
    /\ nreq' = r
    /\ kind' = [kind EXCEPT ![r] = "query_data"]
    /\ args' = [args EXCEPT ![r] = a]
    /\ IF ~is_connected
       THEN Return(r, tNotConnected) /\ UNCHANGED job
       ELSE IF ~analyzer.on
       THEN Return(r, <<"Data analyzer not initialized.">>) /\ UNCHANGED job
       ELSE IF ~a.present
       THEN Return(r, ErrorExecuting("query_data", <<"AttributeError">>)) /\ UNCHANGED job
       ELSE IF ~Truthy(a.question)
       THEN Return(r, <<"Please provide a question.">>) /\ UNCHANGED job
       ELSE /\ job' = [job EXCEPT ![r] = NewJob("generate_dax_query", a.question)]
            /\ pc' = [pc EXCEPT ![r] = "await_generate"]
            /\ UNCHANGED res
    /\ UNCHANGED <<env, connVars, is_connected, analyzer, connection_lock, loopBlocked,
                   frame, handles, histVars>>

\* handle_call_tool(name = "query_data"): the key test, then _handle_query_data up to
\* its first await
CallQueryData(r, a) ==
    /\ Arrives(r)
    /\ nreq' = r
    /\ kind' = [kind EXCEPT ![r] = "query_data"]
    /\ args' = [args EXCEPT ![r] = a]
    /\ IF ~env.key
       THEN Return(r, tNotConfigured) /\ UNCHANGED job
       ELSE IF ~is_connected
       THEN Return(r, tNotConnected) /\ UNCHANGED job
       ELSE IF ~analyzer.on
       THEN Return(r, <<"Data analyzer not initialized.">>) /\ UNCHANGED job
       ELSE IF ~a.present
       THEN Return(r, ErrorExecuting("query_data", <<"AttributeError">>)) /\ UNCHANGED job
       ELSE IF ~Truthy(a.question)
       THEN Return(r, <<"Please provide a question.">>) /\ UNCHANGED job
       ELSE /\ job' = [job EXCEPT ![r] = NewJob("generate_dax_query", a.question)]
            /\ pc' = [pc EXCEPT ![r] = "await_generate"]
            /\ UNCHANGED res
    /\ UNCHANGED <<env, connVars, is_connected, analyzer, connection_lock, loopBlocked,
                   frame, handles, histVars>>

ErrorProcessing(e) == <<"Error processing query", e>>

\* _handle_query_data after `await run_in_executor(None, self.analyzer.generate_dax_query, ...)`
QueryDataGenerateResume(r) ==
    /\ LoopFree /\ pc[r] = "await_generate" /\ Finished(r)
    /\ IF job[r].out.st = "raise"
       THEN /\ Return(r, ErrorProcessing(job[r].out.val))
            /\ job' = [job EXCEPT ![r] = NoJob]
       ELSE /\ job' = [job EXCEPT ![r] = NewJob("execute_dax_query", job[r].out.val)]
            /\ pc' = [pc EXCEPT ![r] = "await_execute"]
            /\ res' = [res EXCEPT ![r] = <<"Question", args[r].question, "DAX Query", job[r].out.val>>]
    /\ UNCHANGED <<env, connVars, is_connected, analyzer, connection_lock, loopBlocked,
                   nreq, kind, args, frame, handles, histVars>>

\* Variant: a failed execution is narrated, with no rows.
QueryDataExecuteResume_NarratesFailure(r) ==
    /\ LoopFree /\ pc[r] = "await_execute" /\ Finished(r)
    /\ IF ~analyzer.on
       THEN /\ Return(r, ErrorProcessing(<<"AttributeError">>))
            /\ job' = [job EXCEPT ![r] = NoJob]
       ELSE /\ job' = [job EXCEPT ![r] =
                        NewJob("interpret_results",
                               IF job[r].out.st = "raise" THEN <<>> ELSE job[r].out.val)]
            /\ pc' = [pc EXCEPT ![r] = "await_interpret"]
            /\ UNCHANGED res
    /\ UNCHANGED <<env, connVars, is_connected, analyzer, connection_lock, loopBlocked,
                   nreq, kind, args, frame, handles, histVars>>

\* _handle_query_data after `await run_in_executor(None, self.connector.execute_dax_query, ...)`;
\* self.analyzer is read again for interpret_results
QueryDataExecuteResume(r) ==
    /\ LoopFree /\ pc[r] = "await_execute" /\ Finished(r)
    /\ IF job[r].out.st = "raise"
       THEN /\ Return(r, ErrorProcessing(job[r].out.val))
            /\ job' = [job EXCEPT ![r] = NoJob]
       ELSE IF ~analyzer.on
       THEN /\ Return(r, ErrorProcessing(<<"AttributeError">>))
            /\ job' = [job EXCEPT ![r] = NoJob]
       ELSE /\ job' = [job EXCEPT ![r] = NewJob("interpret_results", job[r].out.val)]
            /\ pc' = [pc EXCEPT ![r] = "await_interpret"]
            /\ UNCHANGED res
    /\ UNCHANGED <<env, connVars, is_connected, analyzer, connection_lock, loopBlocked,
                   nreq, kind, args, frame, handles, histVars>>

\* _handle_query_data after `await run_in_executor(None, self.analyzer.interpret_results, ...)`
QueryDataInterpretResume(r) ==
    /\ LoopFree /\ pc[r] = "await_interpret" /\ Finished(r)
    /\ Return(r, IF job[r].out.st = "raise" THEN ErrorProcessing(job[r].out.val)
                 ELSE res[r] \o <<"Answer", job[r].out.val>>)
    /\ job' = [job EXCEPT ![r] = NoJob]
    /\ UNCHANGED <<env, connVars, is_connected, analyzer, connection_lock, loopBlocked,
                   nreq, kind, args, frame, handles, histVars>>

\* Variant: suggest_questions without the test of is_connected.
CallSuggestQuestions_NoConnectedTest(r) ==
    /\ Arrives(r)
    /\ nreq' = r
    /\ kind' = [kind EXCEPT ![r] = "suggest_questions"]
    /\ IF ~env.key
       THEN Return(r, tNotConfigured) /\ UNCHANGED job
       ELSE IF ~analyzer.on
       THEN /\ Return(r, <<"Data analyzer not initialized. Please wait for tables to be discovered.">>)
            /\ UNCHANGED job
       ELSE /\ job' = [job EXCEPT ![r] = NewJob("suggest_questions", <<>>)]
            /\ pc' = [pc EXCEPT ![r] = "await_suggest"]
            /\ UNCHANGED res
    /\ UNCHANGED <<env, connVars, is_connected, analyzer, connection_lock, loopBlocked,
                   args, frame, handles, histVars>>

\* handle_call_tool(name = "suggest_questions"): the key test, then
\* _handle_suggest_questions up to its await
CallSuggestQuestions(r) ==
    /\ Arrives(r)
    /\ nreq' = r
    /\ kind' = [kind EXCEPT ![r] = "suggest_questions"]
    /\ IF ~env.key
       THEN Return(r, tNotConfigured) /\ UNCHANGED job
       ELSE IF ~is_connected
       THEN Return(r, tNotConnected) /\ UNCHANGED job
       ELSE IF ~analyzer.on
       THEN /\ Return(r, <<"Data analyzer not initialized. Please wait for tables to be discovered.">>)
            /\ UNCHANGED job
       ELSE /\ job' = [job EXCEPT ![r] = NewJob("suggest_questions", <<>>)]
            /\ pc' = [pc EXCEPT ![r] = "await_suggest"]
            /\ UNCHANGED res
    /\ UNCHANGED <<env, connVars, is_connected, analyzer, connection_lock, loopBlocked,
                   args, frame, handles, histVars>>

\* _handle_suggest_questions after `await run_in_executor(None, self.analyzer.suggest_questions)`
SuggestQuestionsResume(r) ==
    /\ LoopFree /\ pc[r] = "await_suggest" /\ Finished(r)
    /\ Return(r, IF job[r].out.st = "raise"
                 THEN <<"Error generating suggestions", job[r].out.val>>
                 ELSE <<"Here are some questions you might want to ask", job[r].out.val>>)
    /\ job' = [job EXCEPT ![r] = NoJob]
    /\ UNCHANGED <<env, connVars, is_connected, analyzer, connection_lock, loopBlocked,
                   nreq, kind, args, frame, handles, histVars>>

-----------------------------------------------------------------------------
(* PowerBIMCPServer._async_prepare_context: the priming task *)

Primes == {PrimeOf(r) : r \in Req}

NoFrame == [tables |-> <<>>, i |-> 0, schemas |-> <<>>, sample_data |-> <<>>]

Min(a, b) == IF a < b THEN a ELSE b

\* A dict as the sequence of its (key, value) items: d[k] = v
DictSet(d, k, v) ==
    IF \E n \in 1..Len(d) : d[n][1] = k
    THEN [n \in 1..Len(d) |-> IF d[n][1] = k THEN <<k, v>> ELSE d[n]]
    ELSE Append(d, <<k, v>>)

\* DataAnalyzer.set_data_context
set_data_context(a, tbls, schemas, sample_data) ==
    [a EXCEPT !.context = [tables |-> tbls, schemas |-> schemas, sample_data |-> sample_data]]

\* Variant: the for loop goes over every discovered table.
PrimeAdvance_NoCap(p, f) ==
    IF f.i <= Len(f.tables)
       THEN /\ frame' = [frame EXCEPT ![p] = f]
            /\ job' = [job EXCEPT ![p] = NewJob("get_table_schema", f.tables[f.i])]
            /\ pc' = [pc EXCEPT ![p] = "await_schema"]
            /\ UNCHANGED analyzer
       ELSE /\ frame' = [frame EXCEPT ![p] = NoFrame]
            /\ job' = [job EXCEPT ![p] = NoJob]
            /\ pc' = [pc EXCEPT ![p] = "done"]
            /\ analyzer' = IF analyzer.on
                           THEN set_data_context(analyzer, f.tables, f.schemas, f.sample_data)
                           ELSE analyzer

\* The for loop goes on with frame f: the schema of the next table is requested, or,
\* after the last of tables[:5], `if self.analyzer: self.analyzer.set_data_context(...)`.
PrimeAdvance(p, f) ==
    IF f.i <= Min(PrimeCap, Len(f.tables))
       THEN /\ frame' = [frame EXCEPT ![p] = f]
            /\ job' = [job EXCEPT ![p] = NewJob("get_table_schema", f.tables[f.i])]
            /\ pc' = [pc EXCEPT ![p] = "await_schema"]
            /\ UNCHANGED analyzer
       ELSE /\ frame' = [frame EXCEPT ![p] = NoFrame]
            /\ job' = [job EXCEPT ![p] = NoJob]
            /\ pc' = [pc EXCEPT ![p] = "done"]
            /\ analyzer' = IF analyzer.on
                           THEN set_data_context(analyzer, f.tables, f.schemas, f.sample_data)
                           ELSE analyzer

\* The task starts: `await run_in_executor(None, self.connector.discover_tables)`
PrimeStart(p) ==
    /\ LoopFree /\ pc[p] = "ready"
    /\ job' = [job EXCEPT ![p] = NewJob("discover_tables", <<>>)]
    /\ pc' = [pc EXCEPT ![p] = "await_discover"]
    /\ UNCHANGED <<env, connVars, is_connected, analyzer, connection_lock, loopBlocked,
                   nreq, kind, args, res, frame, handles, histVars>>

\* Variant: a failed discovery marks the server as not connected.
PrimeDiscoverResume_Surfaces(p) ==
    /\ LoopFree /\ pc[p] = "await_discover" /\ Finished(p)
    /\ IF job[p].out.st = "raise"
       THEN /\ job' = [job EXCEPT ![p] = NoJob]
            /\ pc' = [pc EXCEPT ![p] = "done"]
            /\ is_connected' = FALSE
            /\ UNCHANGED <<analyzer, frame>>
       ELSE /\ PrimeAdvance(p, [NoFrame EXCEPT !.tables = job[p].out.val, !.i = 1])
            /\ UNCHANGED is_connected
    /\ UNCHANGED <<env, connVars, connection_lock, loopBlocked,
                   nreq, kind, args, res, handles, histVars>>

\* after discover_tables: the outer except swallows a failure
PrimeDiscoverResume(p) ==
    /\ LoopFree /\ pc[p] = "await_discover" /\ Finished(p)
    /\ IF job[p].out.st = "raise"
       THEN /\ job' = [job EXCEPT ![p] = NoJob]
            /\ pc' = [pc EXCEPT ![p] = "done"]
            /\ UNCHANGED <<analyzer, frame>>
       ELSE PrimeAdvance(p, [NoFrame EXCEPT !.tables = job[p].out.val, !.i = 1])
    /\ UNCHANGED <<env, connVars, is_connected, connection_lock, loopBlocked,
                   nreq, kind, args, res, handles, histVars>>

\* Variant: the task passes its dicts to the analyzer after every schema fetch.
PrimeSchemaResume_Publishes(p) ==
    /\ LoopFree /\ pc[p] = "await_schema" /\ Finished(p)
    /\ LET f == frame[p]
           o == job[p].out
           table == f.tables[f.i]
       IN IF o.st = "raise"
          THEN PrimeAdvance(p, [f EXCEPT !.i = @ + 1])
          ELSE IF o.val.type = "data_table"
          THEN /\ frame' = [frame EXCEPT ![p] = [f EXCEPT !.schemas = DictSet(@, table, o.val)]]
               /\ job' = [job EXCEPT ![p] = NewJob("get_sample_data", SampleQuery(table, PrimeSampleRows))]
               /\ pc' = [pc EXCEPT ![p] = "await_sample"]
               /\ analyzer' = IF analyzer.on
                              THEN set_data_context(analyzer, f.tables,
                                                    DictSet(f.schemas, table, o.val), f.sample_data)
                              ELSE analyzer
          ELSE PrimeAdvance(p, [f EXCEPT !.schemas = DictSet(@, table, o.val), !.i = @ + 1])
    /\ UNCHANGED <<env, connVars, is_connected, connection_lock, loopBlocked,
                   nreq, kind, args, res, handles, histVars>>

\* Variant: every table whose schema fetch returned gets a sample query.
PrimeSchemaResume_SamplesAll(p) ==
    /\ LoopFree /\ pc[p] = "await_schema" /\ Finished(p)
    /\ LET f == frame[p]
           o == job[p].out
           table == f.tables[f.i]
       IN IF o.st = "raise"
          THEN PrimeAdvance(p, [f EXCEPT !.i = @ + 1])
          ELSE /\ frame' = [frame EXCEPT ![p] = [f EXCEPT !.schemas = DictSet(@, table, o.val)]]
               /\ job' = [job EXCEPT ![p] = NewJob("get_sample_data", SampleQuery(table, PrimeSampleRows))]
               /\ pc' = [pc EXCEPT ![p] = "await_sample"]
               /\ UNCHANGED analyzer
    /\ UNCHANGED <<env, connVars, is_connected, connection_lock, loopBlocked,
                   nreq, kind, args, res, handles, histVars>>

\* Variant: the schema of a data table is recorded only after its sample query, and
\* never is.
PrimeSchemaResume_SchemaUnrecorded(p) ==
    /\ LoopFree /\ pc[p] = "await_schema" /\ Finished(p)
    /\ LET f == frame[p]
           o == job[p].out
           table == f.tables[f.i]
       IN IF o.st = "raise"
          THEN PrimeAdvance(p, [f EXCEPT !.i = @ + 1])
          ELSE IF o.val.type = "data_table"
          THEN /\ frame' = frame
               /\ job' = [job EXCEPT ![p] = NewJob("get_sample_data", SampleQuery(table, PrimeSampleRows))]
               /\ pc' = [pc EXCEPT ![p] = "await_sample"]
               /\ UNCHANGED analyzer
          ELSE PrimeAdvance(p, [f EXCEPT !.schemas = DictSet(@, table, o.val), !.i = @ + 1])
    /\ UNCHANGED <<env, connVars, is_connected, connection_lock, loopBlocked,
                   nreq, kind, args, res, handles, histVars>>

\* after get_table_schema: schemas[table] = schema; a data_table gets a sample query;
\* the inner except skips the table
PrimeSchemaResume(p) ==
    /\ LoopFree /\ pc[p] = "await_schema" /\ Finished(p)
    /\ LET f == frame[p]
           o == job[p].out
           table == f.tables[f.i]
       IN IF o.st = "raise"
          THEN PrimeAdvance(p, [f EXCEPT !.i = @ + 1])
          ELSE IF o.val.type = "data_table"
          THEN /\ frame' = [frame EXCEPT ![p] = [f EXCEPT !.schemas = DictSet(@, table, o.val)]]
               /\ job' = [job EXCEPT ![p] = NewJob("get_sample_data", SampleQuery(table, PrimeSampleRows))]
               /\ pc' = [pc EXCEPT ![p] = "await_sample"]
               /\ UNCHANGED analyzer
          ELSE PrimeAdvance(p, [f EXCEPT !.schemas = DictSet(@, table, o.val), !.i = @ + 1])
    /\ UNCHANGED <<env, connVars, is_connected, connection_lock, loopBlocked,
                   nreq, kind, args, res, handles, histVars>>

\* Variant: a failed sample query ends the task without a context.
PrimeSampleResume_Aborts(p) ==
    /\ LoopFree /\ pc[p] = "await_sample" /\ Finished(p)
    /\ LET f == frame[p]
           o == job[p].out
           table == f.tables[f.i]
       IN IF o.st = "raise"
          THEN /\ frame' = [frame EXCEPT ![p] = NoFrame]
               /\ job' = [job EXCEPT ![p] = NoJob]
               /\ pc' = [pc EXCEPT ![p] = "done"]
               /\ UNCHANGED analyzer
          ELSE PrimeAdvance(p, [f EXCEPT !.sample_data = DictSet(@, table, o.val), !.i = @ + 1])
    /\ UNCHANGED <<env, connVars, is_connected, connection_lock, loopBlocked,
                   nreq, kind, args, res, handles, histVars>>

\* after get_sample_data: sample_data[table] = samples; the inner except skips it
PrimeSampleResume(p) ==
    /\ LoopFree /\ pc[p] = "await_sample" /\ Finished(p)
    /\ LET f == frame[p]
           o == job[p].out
           table == f.tables[f.i]
       IN IF o.st = "raise"
          THEN PrimeAdvance(p, [f EXCEPT !.i = @ + 1])
          ELSE PrimeAdvance(p, [f EXCEPT !.sample_data = DictSet(@, table, o.val), !.i = @ + 1])
    /\ UNCHANGED <<env, connVars, is_connected, connection_lock, loopBlocked,
                   nreq, kind, args, res, handles, histVars>>

-----------------------------------------------------------------------------
(* The specification *)

Init ==
    /\ env \in Envs
    /\ connection_string = NoConnStr
    /\ connected = FALSE
    /\ tables = <<>>
    /\ is_connected = FALSE
    /\ analyzer = NoAnalyzer
    /\ connection_lock = 0
    /\ loopBlocked = 0
    /\ nreq = 0
    /\ kind = [t \in Tasks |-> "-"]
    /\ args = [t \in Tasks |-> NoArgs]
    /\ pc = [t \in Tasks |-> IF t \in Req THEN "new" ELSE "-"]
    /\ res = [t \in Tasks |-> <<>>]
    /\ job = [t \in Tasks |-> NoJob]
    /\ frame = [t \in Tasks |-> NoFrame]
    /\ handles = 0
    /\ cacheSrc = [rows |-> <<>>, cs |-> NoConnStr]
    /\ lastDisc = <<"-">>
    /\ lastSchema = <<"-">>
    /\ lastWrite = NoWrite

\* A worker thread takes one step of the connector method it runs.
Worker(t) ==
    \/ ConnProbe(t) \/ ConnSet(t) \/ ConnFail(t)
    \/ DtCheck(t) \/ DtCache(t) \/ DtProbe(t) \/ DtStore(t)
    \/ GsCheck(t) \/ GsProbe(t) \/ GmCheck(t) \/ GmProbe(t)
    \/ ExCheck(t) \/ ExRun(t)
    \/ AnReadSchemas(t) \/ AnGenerate(t) \/ AnInterpret(t) \/ AnSuggest(t)

\* The loop thread runs one segment of a coroutine.
Loop ==
    \/ \E r \in Req : \E a \in ConnectArgs \cup {NoArgs} : CallConnect(r, a)
    \/ \E r \in Req : ConnectResume(r)
    \/ \E r \in Req : CallListTables(r)
    \/ \E r \in Req : ListTablesResume(r)
    \/ \E r \in Req : \E a \in TableArgs \cup {NoArgs} : CallGetTableInfo(r, a)
    \/ \E r \in Req : TableInfoSchemaResume(r)
    \/ \E r \in Req : TableInfoSampleResume(r)
    \/ \E r \in Req : \E a \in DaxArgs \cup {NoArgs} : CallExecuteDax(r, a)
    \/ \E r \in Req : ExecuteDaxResume(r)
    \/ \E r \in Req : ListTools(r)
    \/ \E r \in Req : \E name \in UnknownNames : CallUnknownTool(r, name)
    \/ \E r \in Req : \E a \in QuestionArgs \cup {NoArgs} : CallQueryData(r, a)
    \/ \E r \in Req : QueryDataGenerateResume(r)
    \/ \E r \in Req : QueryDataExecuteResume(r)
    \/ \E r \in Req : QueryDataInterpretResume(r)
    \/ \E r \in Req : CallSuggestQuestions(r)
    \/ \E r \in Req : SuggestQuestionsResume(r)
    \/ \E p \in Primes : PrimeStart(p)
    \/ \E p \in Primes : PrimeDiscoverResume(p)
    \/ \E p \in Primes : PrimeSchemaResume(p)
    \/ \E p \in Primes : PrimeSampleResume(p)

Next == Loop \/ \E t \in Tasks : Worker(t)

Spec == Init /\ [][Next]_vars

\* The connector behind a driver that answers a catalog probe with any rows: the
\* server in an environment without OPENAI_API_KEY, receiving connect_powerbi
\* requests with full credentials and list_tables requests.
AnyCatalogEnv ==
    [pyadomd |-> TRUE, key |-> FALSE, tid |-> None, cid |-> None, sec |-> None, rows |-> "any"]

FullArgs ==
    [present |-> TRUE, ep |-> "ep1", cat |-> "catA", tid |-> "t1", cid |-> "c1", sec |-> "s1"]

InitCatalog ==
    /\ env = AnyCatalogEnv
    /\ connection_string = NoConnStr
    /\ connected = FALSE
    /\ tables = <<>>
    /\ is_connected = FALSE
    /\ analyzer = NoAnalyzer
    /\ connection_lock = 0
    /\ loopBlocked = 0
    /\ nreq = 0
    /\ kind = [t \in Tasks |-> "-"]
    /\ args = [t \in Tasks |-> NoArgs]
    /\ pc = [t \in Tasks |-> IF t \in Req THEN "new" ELSE "-"]
    /\ res = [t \in Tasks |-> <<>>]
    /\ job = [t \in Tasks |-> NoJob]
    /\ frame = [t \in Tasks |-> NoFrame]
    /\ handles = 0
    /\ cacheSrc = [rows |-> <<>>, cs |-> NoConnStr]
    /\ lastDisc = <<"-">>
    /\ lastSchema = <<"-">>
    /\ lastWrite = NoWrite

NextCatalog ==
    \/ \E r \in Req : CallConnect(r, FullArgs)
    \/ \E r \in Req : ConnectResume(r)
    \/ \E r \in Req : CallListTables(r)
    \/ \E r \in Req : ListTablesResume(r)
    \/ \E t \in Req : ConnProbe(t) \/ ConnSet(t) \/ ConnFail(t)
    \/ \E t \in Req : DtCheck(t) \/ DtCache(t) \/ DtProbe(t) \/ DtStore(t)

SpecCatalog == InitCatalog /\ [][NextCatalog]_vars

\* The priming task behind a driver whose catalog lists up to MaxTables user tables:
\* the server with OPENAI_API_KEY set, receiving one connect_powerbi request with
\* full credentials.
ManyTablesEnv ==
    [pyadomd |-> TRUE, key |-> TRUE, tid |-> "dt", cid |-> "dc", sec |-> "ds", rows |-> "many"]

InitPrime ==
    /\ env = ManyTablesEnv
    /\ connection_string = NoConnStr
    /\ connected = FALSE
    /\ tables = <<>>
    /\ is_connected = FALSE
    /\ analyzer = NoAnalyzer
    /\ connection_lock = 0
    /\ loopBlocked = 0
    /\ nreq = 0
    /\ kind = [t \in Tasks |-> "-"]
    /\ args = [t \in Tasks |-> NoArgs]
    /\ pc = [t \in Tasks |-> IF t \in Req THEN "new" ELSE "-"]
    /\ res = [t \in Tasks |-> <<>>]
    /\ job = [t \in Tasks |-> NoJob]
    /\ frame = [t \in Tasks |-> NoFrame]
    /\ handles = 0
    /\ cacheSrc = [rows |-> <<>>, cs |-> NoConnStr]
    /\ lastDisc = <<"-">>
    /\ lastSchema = <<"-">>
    /\ lastWrite = NoWrite

NextPrime ==
    \/ CallConnect(1, FullArgs)
    \/ ConnectResume(1)
    \/ PrimeStart(PrimeOf(1))
    \/ PrimeDiscoverResume(PrimeOf(1))
    \/ PrimeSchemaResume(PrimeOf(1))
    \/ PrimeSampleResume(PrimeOf(1))
    \/ \E t \in {1, PrimeOf(1)} :
          \/ ConnProbe(t) \/ ConnSet(t) \/ ConnFail(t)
          \/ DtCheck(t) \/ DtCache(t) \/ DtProbe(t) \/ DtStore(t)
          \/ GsCheck(t) \/ GsProbe(t) \/ GmCheck(t) \/ GmProbe(t)
          \/ ExCheck(t) \/ ExRun(t)

SpecPrime == InitPrime /\ [][NextPrime]_vars

\* The connector alone where the import of pyadomd failed (Pyadomd is None), called
\* directly as tests/unit/test_connector.py does: its methods are called one after
\* another or side by side, and the caller may set connected and connection_string
\* itself.
DriverlessEnv ==
    [pyadomd |-> FALSE, key |-> FALSE, tid |-> None, cid |-> None, sec |-> None, rows |-> "narrow"]

DirectCallers == {1, 2}

InitDriverless ==
    /\ env = DriverlessEnv
    /\ connection_string = NoConnStr
    /\ connected = FALSE
    /\ tables = <<>>
    /\ is_connected = FALSE
    /\ analyzer = NoAnalyzer
    /\ connection_lock = 0
    /\ loopBlocked = 0
    /\ nreq = 0
    /\ kind = [t \in Tasks |-> "-"]
    /\ args = [t \in Tasks |-> NoArgs]
    /\ pc = [t \in Tasks |-> IF t \in Req THEN "new" ELSE "-"]
    /\ res = [t \in Tasks |-> <<>>]
    /\ job = [t \in Tasks |-> NoJob]
    /\ frame = [t \in Tasks |-> NoFrame]
    /\ handles = 0
    /\ cacheSrc = [rows |-> <<>>, cs |-> NoConnStr]
    /\ lastDisc = <<"-">>
    /\ lastSchema = <<"-">>
    /\ lastWrite = NoWrite

\* A caller that runs no method calls method f with argument a.
CallDirect(t, f, a) ==
    /\ ~Running(t)
    /\ job' = [job EXCEPT ![t] = NewJob(f, a)]
    /\ UNCHANGED <<env, connVars, srvVars, handles, histVars>>

\* connector.connected = True; connector.connection_string = "mocked"
MockConnected ==
    /\ ~connected
    /\ connected' = TRUE
    /\ connection_string' = << <<"mocked">> >>
    /\ lastWrite' = [field |-> "connected", locked |-> FALSE]
    /\ UNCHANGED <<env, tables, srvVars, job, handles, cacheSrc, lastDisc, lastSchema>>

NextDriverless ==
    \/ MockConnected
    \/ \E t \in DirectCallers :
          \/ CallDirect(t, "connect", [ep |-> "ep1", tid |-> "t1", cid |-> "c1",
                                       sec |-> "s1", cat |-> "catA"])
          \/ CallDirect(t, "discover_tables", <<>>)
          \/ CallDirect(t, "get_table_schema", nSales)
          \/ CallDirect(t, "execute_dax_query", "EVALUATE Sales")
          \/ CallDirect(t, "get_sample_data", SampleQuery(nSales, 10))
          \/ ConnProbe(t)
          \/ DtCheck(t) \/ DtCache(t)
          \/ GsCheck(t) \/ GsProbe(t)
          \/ ExCheck(t) \/ ExRun(t)

SpecDriverless == InitDriverless /\ [][NextDriverless]_vars

\* The connected server, without OPENAI_API_KEY, receiving PoolReq execute_dax
\* requests: each is dispatched with run_in_executor(None, ...).
PoolReq == 5
PoolRequests == 1..PoolReq

\* self.executor = ThreadPoolExecutor(max_workers=4)
max_workers == 4

InitPool ==
    /\ env = [pyadomd |-> TRUE, key |-> FALSE, tid |-> None, cid |-> None, sec |-> None,
              rows |-> "wide"]
    /\ connection_string = ConnStr([ep |-> "ep1", tid |-> "t1", cid |-> "c1", sec |-> "s1",
                                    cat |-> "catA"])
    /\ connected = TRUE
    /\ tables = <<>>
    /\ is_connected = TRUE
    /\ analyzer = NoAnalyzer
    /\ connection_lock = 0
    /\ loopBlocked = 0
    /\ nreq = 0
    /\ kind = [t \in PoolRequests |-> "-"]
    /\ args = [t \in PoolRequests |-> NoArgs]
    /\ pc = [t \in PoolRequests |-> "new"]
    /\ res = [t \in PoolRequests |-> <<>>]
    /\ job = [t \in PoolRequests |-> NoJob]
    /\ frame = [t \in PoolRequests |-> NoFrame]
    /\ handles = 0
    /\ cacheSrc = [rows |-> <<>>, cs |-> NoConnStr]
    /\ lastDisc = <<"-">>
    /\ lastSchema = <<"-">>
    /\ lastWrite = NoWrite

NextPool ==
    \E r \in PoolRequests :
        \/ CallExecuteDax(r, [present |-> TRUE, dax_query |-> "EVALUATE Sales"])
        \/ ExecuteDaxResume(r)
        \/ ExCheck(r)
        \/ ExRun(r)

SpecPool == InitPool /\ [][NextPool]_vars

\* The server as TestTableInfoHandling sets it up: server.is_connected = True and
\* server.connector replaced by a stub whose get_table_schema returns a descriptor
\* with record columns and whose get_sample_data returns rows.
InitStub ==
    /\ env = [pyadomd |-> TRUE, key |-> FALSE, tid |-> None, cid |-> None, sec |-> None,
              rows |-> "narrow"]
    /\ connection_string = NoConnStr
    /\ connected = FALSE
    /\ tables = <<>>
    /\ is_connected = TRUE
    /\ analyzer = NoAnalyzer
    /\ connection_lock = 0
    /\ loopBlocked = 0
    /\ nreq = 0
    /\ kind = [t \in Tasks |-> "-"]
    /\ args = [t \in Tasks |-> NoArgs]
    /\ pc = [t \in Tasks |-> IF t \in Req THEN "new" ELSE "-"]
    /\ res = [t \in Tasks |-> <<>>]
    /\ job = [t \in Tasks |-> NoJob]
    /\ frame = [t \in Tasks |-> NoFrame]
    /\ handles = 0
    /\ cacheSrc = [rows |-> <<>>, cs |-> NoConnStr]
    /\ lastDisc = <<"-">>
    /\ lastSchema = <<"-">>
    /\ lastWrite = NoWrite

\* MockConnector.get_table_schema / BugReproducingMockConnector.get_table_schema
StubGetTableSchema(t) ==
    /\ job[t].fn = "get_table_schema" /\ job[t].pc = "start"
    /\ \E cols \in EnhancedColumnLists :
          job' = [job EXCEPT ![t] = End(@, Ret(EnhancedTable(job[t].arg, cols)))]
    /\ UNCHANGED <<env, connVars, srvVars, handles, histVars>>

\* MockConnector.get_sample_data: a list of row records
StubGetSampleData(t) ==
    /\ job[t].fn = "get_sample_data" /\ job[t].pc = "start"
    /\ \E rs \in ResultSets : job' = [job EXCEPT ![t] = End(@, Ret(rs))]
    /\ UNCHANGED <<env, connVars, srvVars, handles, histVars>>

NextStub ==
    \E r \in Req :
        \/ \E a \in TableArgs : CallGetTableInfo(r, a)
        \/ TableInfoSchemaResume(r)
        \/ TableInfoSampleResume(r)
        \/ StubGetTableSchema(r)
        \/ StubGetSampleData(r)

SpecStub == InitStub /\ [][NextStub]_vars

-----------------------------------------------------------------------------
(* clean_dax_query: a query is the sequence of its characters *)

MaxQueryLen == 5
QueryChars == {"<", ">", " ", "a"}
White == {" "}

RECURSIVE StringsUpTo(_)
StringsUpTo(n) ==
    IF n = 0 THEN {<<>>}
    ELSE LET shorter == StringsUpTo(n - 1)
         IN shorter \cup {Append(q, c) : q \in {x \in shorter : Len(x) = n - 1}, c \in QueryChars}

\* "A < 5 <tag>X</tag> B > 2"
TaggedComparison ==
    <<"A", " ", "<", " ", "5", " ", "<", "t", "a", "g", ">", "X", "<", "/", "t", "a", "g", ">",
      " ", "B", " ", ">", " ", "2">>

\* "A < 5 X B > 2"
TaggedComparisonCleaned ==
    <<"A", " ", "<", " ", "5", " ", "X", " ", "B", " ", ">", " ", "2">>

\* "<<a>a>": a tag around a tag
NestedTag == <<"<", "<", "a", ">", "a", ">">>

CleanInputs == StringsUpTo(MaxQueryLen) \cup {TaggedComparison, NestedTag}

SetMin(S) == CHOOSE x \in S : \A y \in S : x <= y

\* Variant: the pattern is "<[^<>]+>", which does not match across a "<".
RECURSIVE SubTagsFrom_Innermost(_, _)
SubTagsFrom_Innermost(q, i) ==
    IF i > Len(q) THEN <<>>
    ELSE LET special == {j \in (i + 1)..Len(q) : q[j] \in {"<", ">"}}
         IN IF q[i] = "<" /\ special # {} /\ q[SetMin(special)] = ">" /\ SetMin(special) >= i + 2
            THEN SubTagsFrom_Innermost(q, SetMin(special) + 1)
            ELSE <<q[i]>> \o SubTagsFrom_Innermost(q, i + 1)

\* re.sub(r"<[^>]+>", "", q) from position i on: at a "<" the pattern matches up to the
\* first ">" after it, if at least one character lies between; the match is dropped
\* and the scan goes on behind it.
RECURSIVE SubTagsFrom(_, _)
SubTagsFrom(q, i) ==
    IF i > Len(q) THEN <<>>
    ELSE LET closing == {j \in (i + 1)..Len(q) : q[j] = ">"}
         IN IF q[i] = "<" /\ closing # {} /\ SetMin(closing) >= i + 2
            THEN SubTagsFrom(q, SetMin(closing) + 1)
            ELSE <<q[i]>> \o SubTagsFrom(q, i + 1)

\* " ".join(cleaned.split()) from position i on: acc is what is joined so far, gap
\* tells that whitespace came after it.
RECURSIVE JoinSplitFrom(_, _, _, _)
JoinSplitFrom(q, i, acc, gap) ==
    IF i > Len(q) THEN acc
    ELSE IF q[i] \in White THEN JoinSplitFrom(q, i + 1, acc, acc # <<>>)
    ELSE JoinSplitFrom(q, i + 1, (IF gap THEN Append(acc, " ") ELSE acc) \o <<q[i]>>, FALSE)

clean_dax_query(q) == JoinSplitFrom(SubTagsFrom(q, 1), 1, <<>>, FALSE)

\* cleaned = re.sub(r"<[^>]+>", "", dax_query)
CleanSub(t) ==
    /\ job[t].fn = "clean_dax_query" /\ job[t].pc = "start"
    /\ job' = [job EXCEPT ![t] = [@ EXCEPT !.loc = SubTagsFrom(job[t].arg, 1), !.pc = "join"]]
    /\ UNCHANGED <<env, connVars, srvVars, handles, histVars>>

\* cleaned = " ".join(cleaned.split()); return cleaned
CleanJoin(t) ==
    /\ job[t].fn = "clean_dax_query" /\ job[t].pc = "join"
    /\ job' = [job EXCEPT ![t] = End(@, Ret(JoinSplitFrom(job[t].loc, 1, <<>>, FALSE)))]
    /\ UNCHANGED <<env, connVars, srvVars, handles, histVars>>

\* The natural-language path: the query generate_dax_query returned, cleaned once by
\* task 1, is passed to execute_dax_query, whose clean_dax_query call is task 2.
CleanGenerated ==
    /\ job[1].fn = "clean_dax_query" /\ Finished(1) /\ job[2] = NoJob
    /\ job' = [job EXCEPT ![2] = NewJob("clean_dax_query", job[1].out.val)]
    /\ UNCHANGED <<env, connVars, srvVars, handles, histVars>>

\* clean_dax_query called with any of the inputs
InitClean ==
    /\ env = AnyCatalogEnv
    /\ connection_string = NoConnStr
    /\ connected = FALSE
    /\ tables = <<>>
    /\ is_connected = FALSE
    /\ analyzer = NoAnalyzer
    /\ connection_lock = 0
    /\ loopBlocked = 0
    /\ nreq = 0
    /\ kind = [t \in Tasks |-> "-"]
    /\ args = [t \in Tasks |-> NoArgs]
    /\ pc = [t \in Tasks |-> IF t \in Req THEN "new" ELSE "-"]
    /\ res = [t \in Tasks |-> <<>>]
    /\ \E q \in CleanInputs :
          job = [t \in Tasks |-> IF t = 1 THEN NewJob("clean_dax_query", q) ELSE NoJob]
    /\ frame = [t \in Tasks |-> NoFrame]
    /\ handles = 0
    /\ cacheSrc = [rows |-> <<>>, cs |-> NoConnStr]
    /\ lastDisc = <<"-">>
    /\ lastSchema = <<"-">>
    /\ lastWrite = NoWrite

NextClean ==
    \/ \E t \in Tasks : CleanSub(t) \/ CleanJoin(t)
    \/ CleanGenerated

SpecClean == InitClean /\ [][NextClean]_vars

-----------------------------------------------------------------------------
(* Properties *)

IsDiscover(t) == job[t].fn = "discover_tables"
IsConnectJob(t) == job[t].fn = "connect"
ConnectReq(r) == kind[r] = "connect_powerbi"

\* Connect request r is inside `with self.connection_lock:`, suspended at its await.
InCritical(r) == ConnectReq(r) /\ pc[r] = "await_connect"

\* C1: at most one connect_powerbi request is inside the connection-mutex critical
\* section (holding the lock, its connector.connect job probing the driver and
\* writing connected and the connection string) in any reachable state.
C1_MutualExclusion ==
    /\ Cardinality({r \in Req : InCritical(r)}) <= 1
    /\ Cardinality({t \in Tasks : IsConnectJob(t)}) <= 1
    /\ \A r \in Req : InCritical(r) => connection_lock = r /\ IsConnectJob(r)

\* A second connect request has arrived while the first runs its probe.
C1_Witness ==
    \E r, q \in Req : r # q /\ InCritical(r) /\ Running(r) /\ ConnectReq(q) /\ pc[q] = "acquiring"

\* C2 (as claimed): a connect request that has been received and has not returned
\* its text can always go on: the system never stops with a connect request pending.
C2_ConnectAlwaysProceeds ==
    (\E r \in Req : ConnectReq(r) /\ pc[r] # "done") => ENABLED Next

\* C3 (as claimed): whenever a connector call is executing on a worker, the loop
\* thread is not blocked: it can run steps of other requests.
C3_LoopNeverBlocked ==
    \A t \in Tasks : Running(t) => LoopFree

\* C4: discover_tables, get_table_schema, get_measures_for_table, execute_dax_query
\* and get_sample_data, entered while connected is false, raise 'Not connected to
\* Power BI' and open no handle (and send no query).
C4_NotConnectedFailsFast ==
    \A t \in Tasks :
        /\ job[t].rd = "F" =>
              /\ job[t].fn \in {"discover_tables", "get_table_schema", "execute_dax_query",
                                "get_sample_data"}
              /\ Finished(t)
              /\ job[t].out = Raise(eNotConnected)
              /\ job[t].opened = 0 /\ ~job[t].queried
        /\ job[t].mrd = "F" =>
              /\ job[t].mout = Raise(eNotConnected)
              /\ job[t].mopened = 0

\* get_measures_for_table was entered with connected false, inside a get_table_schema
\* call that had found connected true.
C4_Witness ==
    \E t \in Tasks : job[t].fn = "get_table_schema" /\ job[t].rd = "T" /\ job[t].mrd = "F"

\* The items of a connection string
HasItem(cs, item) == \E i \in 1..Len(cs) : cs[i] = item

\* Request r has returned the success text of connect_powerbi, with its catalog name.
ToldSuccess(r) ==
    /\ ConnectReq(r) /\ pc[r] = "done" /\ Len(res[r]) = 2
    /\ res[r][1] = "Successfully connected to Power BI dataset"
    /\ args[r].present /\ res[r][2] = args[r].cat

\* C5: when the probe connection succeeds, connect has set connected, has stored a
\* connection string that contains the endpoint and the catalog, and returns True;
\* the connect_powerbi tool then returns the success text with the catalog name,
\* and the server is connected.
C5_ConnectSuccess ==
    /\ [](\A r \in Req :
            (IsConnectJob(r) /\ Finished(r) /\ job[r].opened = 1) =>
                /\ job[r].out = Ret(<<"True">>)
                /\ connected
                /\ HasItem(connection_string, <<"Data Source", args[r].ep>>)
                /\ HasItem(connection_string, <<"Initial Catalog", args[r].cat>>))
    /\ [][\A r \in Req :
            (IsConnectJob(r) /\ Finished(r) /\ job[r].opened = 1 /\ pc'[r] = "done") =>
                /\ ToldSuccess(r)'
                /\ is_connected' /\ connected']_vars

C5_Witness ==
    \E r \in Req : ToldSuccess(r) /\ is_connected /\ connected

\* C6: when the probe connection raises, connect has set connected to false and
\* raises 'Connection failed' with the driver's message, also when the connector was
\* connected before; the connect_powerbi tool returns a 'Connection failed' text and
\* the server is not connected.
C6_ConnectFailure ==
    /\ [](\A r \in Req :
            (IsConnectJob(r) /\ Finished(r) /\ job[r].loc # <<>>) =>
                /\ job[r].loc[1] \in DriverMsgs
                /\ job[r].out = Raise(<<"Connection failed", job[r].loc[1]>>)
                /\ ~connected)
    /\ [][\A r \in Req :
            (IsConnectJob(r) /\ Finished(r) /\ job[r].loc # <<>> /\ pc'[r] = "done") =>
                /\ res'[r] = <<"Connection failed", <<"Connection failed", job[r].loc[1]>>>>
                /\ ~is_connected' /\ ~connected']_vars

\* A connect has failed on a server that an earlier connect had connected.
C6_Witness ==
    \E r, q \in Req :
        /\ ToldSuccess(q)
        /\ pc[r] = "done" /\ ConnectReq(r) /\ r > q /\ Len(res[r]) = 2
        /\ res[r][1] = "Connection failed" /\ res[r][2] \in {<<"Connection failed", m>> : m \in DriverMsgs}
        /\ ~is_connected /\ ~connected

\* A discover_tables call that began after an earlier one had returned, with no
\* connect in between, has ended.
SecondDiscover(t) == IsDiscover(t) /\ Finished(t) /\ job[t].rd = "T" /\ job[t].prev[1] = "ret"

UserRow(row) ==
    LET n == row.TABLE_NAME
    IN /\ ~(Len(n) >= 1 /\ n[1] = "$")
       /\ ~(Len(n) >= 18 /\ \A i \in 1..18 : n[i] = pDateTableTemplate[i])
       /\ row.TABLE_SCHEMA # "$SYSTEM"

UserTableNames(rows) ==
    LET sel == SelectSeq(rows, UserRow)
    IN [i \in 1..Len(sel) |-> sel[i].TABLE_NAME]

FooTemplateSales ==
    << Row(nDollarFoo, "Model"), Row(nDateTpl1, "Model"), Row(nSales, "Model") >>

C9_CacheNeverChanges ==
    [][tables # <<>> => tables' = tables]_vars

\* C10: the cached table list is empty or the complete filtered result of the one
\* probe that stored it; a discover_tables call returns the complete result of its
\* probe or the cached list; a call that raises leaves the cached list unchanged.
C10_NoPartialTableList ==
    /\ [](/\ tables = FilterRows(cacheSrc.rows)
          /\ \A t \in Tasks :
               (IsDiscover(t) /\ Finished(t) /\ job[t].out.st = "ok") =>
                   IF job[t].queried THEN job[t].out.val = FilterRows(job[t].rows)
                   ELSE job[t].out.val # <<>>)
    /\ [][\A t \in Tasks :
            (IsDiscover(t) /\ Running(t) /\ job'[t].out.st = "raise") =>
                tables' = tables /\ cacheSrc' = cacheSrc]_vars

\* A probe failed at a row after it had listed a user table, and the cache is empty.
C10_Witness ==
    /\ tables = <<>>
    /\ \E t \in Tasks : /\ IsDiscover(t) /\ Finished(t) /\ job[t].out.st = "raise"
                         /\ job[t].queried /\ job[t].loc # <<>>

IsSchema(t) == job[t].fn = "get_table_schema"

\* A get_table_schema call that found the connector connected has ended.
SchemaEnded(t) == IsSchema(t) /\ Finished(t) /\ job[t].rd = "T"

\* The call has ended and its top-N probe query had failed: the query was sent and
\* the call did not return the data_table descriptor.
ProbeFailed(t) ==
    /\ SchemaEnded(t) /\ job[t].queried
    /\ ~(job[t].out.st = "ok" /\ job[t].out.val.type = "data_table")

\* C11 (as claimed): get_table_schema on a connected connector, for a table whose
\* top-N probe query fails, returns a descriptor of kind measure_table with a
\* measures sequence and never raises.
C11_ProbeFailureGivesMeasureTable ==
    \A t \in Tasks :
        ProbeFailed(t) =>
            /\ job[t].out.st = "ok"
            /\ job[t].out.val.type = "measure_table"
            /\ job[t].out.val.measures \in MeasureRows

\* C12 (as claimed): get_table_schema on a connected connector always returns a
\* table descriptor and never raises.
C12_SchemaNeverRaises ==
    \A t \in Tasks : SchemaEnded(t) => job[t].out.st = "ok"

\* A get_table_schema call for a table has ended that began after an earlier call
\* for the same table had returned a descriptor, with no connect in between.
SecondSchema(t) ==
    SchemaEnded(t) /\ job[t].prev[1] = "ret" /\ job[t].prev[2] = job[t].arg

\* C13 (as claimed): a later get_table_schema for the same table returns the
\* descriptor the first one returned, without querying the driver again.
C13_DescriptorCached ==
    \A t \in Tasks :
        SecondSchema(t) =>
            /\ job[t].out = Ret(job[t].prev[3])
            /\ job[t].opened = 0 /\ ~job[t].queried

InSeq(x, q) == \E i \in 1..Len(q) : q[i] = x

LlmTool(r) == kind[r] \in {"query_data", "suggest_questions"}

\* C14: whenever OPENAI_API_KEY is not set, the advertised tool list holds neither
\* query_data nor suggest_questions, and a request for either has returned the fixed
\* 'OpenAI API key not configured.' text with no call dispatched to the analyzer or
\* the connector, whether or not the server is connected.
C14_NoKeyNoLlmTools ==
    ~env.key =>
        /\ \A r \in Req :
             /\ kind[r] = "tools/list" =>
                   ~InSeq("query_data", res[r]) /\ ~InSeq("suggest_questions", res[r])
             /\ LlmTool(r) => pc[r] = "done" /\ res[r] = tNotConfigured /\ job[r] = NoJob
        /\ \A t \in Tasks : ~IsAnalyzerCall(job[t])

\* Without the key, a query_data request on a connected server got the fixed text.
C14_Witness ==
    /\ ~env.key /\ is_connected
    /\ \E r \in Req : kind[r] = "query_data" /\ args[r].present /\ res[r] = tNotConfigured

\* The priming task of connect request r has been created.
PrimeCreated(r) == pc[PrimeOf(r)] # "-"

\* C15: the priming task of a connect request exists exactly when the request has
\* returned success and OPENAI_API_KEY is set, and it is created in the step in which
\* the request returns; without the key the analyzer stays None.
C15_PrimingIffSuccessAndKey ==
    /\ [](/\ \A r \in Req : PrimeCreated(r) <=> (env.key /\ ToldSuccess(r))
          /\ ~env.key => analyzer = NoAnalyzer)
    /\ [][\A r \in Req :
            (~PrimeCreated(r) /\ PrimeCreated(r)') =>
                /\ pc[r] = "await_connect" /\ job[r].out = Ret(<<"True">>)
                /\ pc'[PrimeOf(r)] = "ready" /\ analyzer' = NewAnalyzer(r)]_vars

\* With the key set, one connect has succeeded and its priming task exists, and
\* another has returned without success and has none.
C15_Witness ==
    /\ env.key
    /\ \E r, q \in Req :
         /\ ToldSuccess(r) /\ PrimeCreated(r)
         /\ ConnectReq(q) /\ pc[q] = "done" /\ ~ToldSuccess(q) /\ ~PrimeCreated(q)

\* q begins with p
IsPrefix(p, q) == Len(p) <= Len(q) /\ \A i \in 1..Len(p) : q[i] = p[i]

\* The step ends priming task p, which has gone through all of its tables[:5], and
\* installs what the task has gathered.
InstallsAll(p) ==
    /\ pc[p] \in {"await_discover", "await_schema", "await_sample"} /\ pc'[p] = "done"
    /\ IF pc[p] = "await_discover"
       THEN job[p].out = Ret(<<>>) /\ analyzer'.context = EmptyContext
       ELSE /\ frame[p].i = Min(PrimeCap, Len(frame[p].tables))
            /\ analyzer'.context.tables = frame[p].tables
            /\ IsPrefix(frame[p].schemas, analyzer'.context.schemas)
            /\ IsPrefix(frame[p].sample_data, analyzer'.context.sample_data)

\* The step rebinds self.analyzer to a new DataAnalyzer, whose context is the initial one.
NewAnalyzerStep ==
    \E r \in Req : pc[r] = "await_connect" /\ pc'[r] = "done" /\ analyzer'.context = EmptyContext

\* C16: the analyzer's context is replaced only as a whole: by the initial context
\* of a new analyzer, or by what one priming task has gathered, in the step that
\* ends the task after it has gone through all of its tables; while a task is
\* gathering, what it has so far is not in the analyzer, and what an analyzer call
\* reads is a part of the context the analyzer held at that moment.
C16_ContextWhole ==
    /\ [][analyzer'.context # analyzer.context =>
            (NewAnalyzerStep \/ \E p \in Primes : InstallsAll(p))]_vars
    /\ [][\A t \in Tasks :
            (IsAnalyzerCall(job[t]) /\ Len(job'[t].ctx) > Len(job[t].ctx)) =>
                IF Len(job'[t].ctx) = 1
                THEN job'[t].ctx[1] = BoundContext(job[t]).schemas
                ELSE job'[t].ctx[2] = BoundContext(job[t]).sample_data]_vars

\* A priming task has stored a schema and awaits the sample, the analyzer still holds
\* the initial context, and a suggest_questions call has read it.
C16_Witness ==
    /\ analyzer.on /\ analyzer.context = EmptyContext
    /\ \E p \in Primes : pc[p] = "await_sample" /\ frame[p].schemas # <<>>
    /\ \E t \in Tasks : job[t].fn = "suggest_questions" /\ Finished(t) /\ job[t].ctx = << <<>> >>

\* Priming task p resumes after a connector call that raised.
\* A step in which priming task p resumes from its await
PrimeResumes(p) == pc'[p] # pc[p] \/ frame'[p] # frame[p]

PrimeFailureStep(p) ==
    /\ pc[p] \in {"await_discover", "await_schema", "await_sample"}
    /\ Finished(p) /\ job[p].out.st = "raise"
    /\ PrimeResumes(p)

\* C17: a priming task that resumes after a failed discovery, schema fetch or sample
\* fetch ends or goes on to its next table; the step changes no request's position
\* or result text, not the connected flags, the connection string or the cached
\* table list; a priming task never returns a text, and the connect request that
\* created it keeps its success text.
C17_PrimingFailuresSwallowed ==
    /\ [][\A p \in Primes :
            PrimeFailureStep(p) =>
                /\ pc'[p] = (IF pc[p] = "await_discover"
                                \/ frame[p].i >= Min(PrimeCap, Len(frame[p].tables))
                             THEN "done" ELSE "await_schema")
                /\ res' = res /\ is_connected' = is_connected
                /\ <<connection_string, connected, tables>>' = <<connection_string, connected, tables>>
                /\ \A r \in Req : pc'[r] = pc[r] /\ job'[r] = job[r]]_vars
    /\ [](\A r \in Req : /\ res[PrimeOf(r)] = <<>>
                         /\ PrimeCreated(r) => ToldSuccess(r))

\* A priming task has ended whose schema fetch for its table had failed; the context
\* it installed lists the table without a schema; its connect request holds the
\* success text and a later list_tables request has returned the table.
C17_Witness ==
    \E r, q \in Req :
        /\ r < q /\ ToldSuccess(r) /\ pc[PrimeOf(r)] = "done" /\ is_connected
        /\ analyzer.context.tables # <<>> /\ analyzer.context.schemas = <<>>
        /\ kind[q] = "list_tables" /\ pc[q] = "done" /\ res[q][1] = "Available tables"

\* A step in which priming task p calls get_table_schema
SchemaCall(p) ==
    /\ pc'[p] = "await_schema"
    /\ pc[p] # "await_schema" \/ frame'[p].i # frame[p].i

\* A step in which priming task p leaves its loop over the tables
PrimeLoopEnds(p) ==
    /\ pc'[p] = "done"
    /\ \/ pc[p] \in {"await_schema", "await_sample"}
       \/ pc[p] = "await_discover" /\ job[p].out.st = "ok"

\* C18: a priming task asks for the schema of position 1 of the discovered list first
\* and of the next position on every later call, each time for the table at that
\* position, never beyond position min(5, n); it leaves the loop only after position
\* min(5, n).
C18_SchemaForFirstFive ==
    [][\A p \in Primes :
        /\ SchemaCall(p) =>
              /\ frame'[p].tables = (IF pc[p] = "await_discover"
                                     THEN job[p].out.val ELSE frame[p].tables)
              /\ frame'[p].i = (IF pc[p] = "await_discover" THEN 1 ELSE frame[p].i + 1)
              /\ frame'[p].i <= Min(5, Len(frame'[p].tables))
              /\ job'[p] = NewJob("get_table_schema", frame'[p].tables[frame'[p].i])
        /\ PrimeLoopEnds(p) =>
              IF pc[p] = "await_discover"
              THEN job[p].out.val = <<>>
              ELSE frame[p].i = Min(5, Len(frame[p].tables))]_vars

C18_Witness ==
    \E p \in Primes :
        /\ pc[p] = "done" /\ analyzer.on
        /\ Len(analyzer.context.tables) = MaxTables
        /\ Len(analyzer.context.schemas) = 5
        /\ \A n \in 1..5 : analyzer.context.schemas[n][1] = analyzer.context.tables[n]

HasKey(d, k) == \E n \in 1..Len(d) : d[n][1] = k

\* C19: when the schema fetch or the sample fetch of a table fails, the task goes on
\* with what it gathered so far and nothing for the failed fetch: to the schema of the
\* next position if there is one among the first five, otherwise to installing the
\* context with the whole discovered list.
C19_PerTableFailureIsolated ==
    [][\A p \in Primes :
        (PrimeFailureStep(p) /\ pc[p] \in {"await_schema", "await_sample"}) =>
            LET f == frame[p]
                table == f.tables[f.i]
            IN /\ ~HasKey(f.sample_data, table)
               /\ pc[p] = "await_schema" => ~HasKey(f.schemas, table)
               /\ IF f.i < Min(5, Len(f.tables))
                  THEN /\ pc'[p] = "await_schema"
                       /\ frame'[p] = [f EXCEPT !.i = f.i + 1]
                       /\ job'[p] = NewJob("get_table_schema", f.tables[f.i + 1])
                       /\ analyzer' = analyzer
                  ELSE /\ pc'[p] = "done"
                       /\ analyzer'.context = [tables |-> f.tables, schemas |-> f.schemas,
                                               sample_data |-> f.sample_data]]_vars

C19_Witness ==
    \E p \in Primes :
        LET c == analyzer.context
        IN /\ pc[p] = "done" /\ Len(c.tables) = MaxTables
           /\ ~HasKey(c.schemas, c.tables[2])
           /\ HasKey(c.schemas, c.tables[3]) /\ ~HasKey(c.sample_data, c.tables[3])
           /\ \E n \in 1..Len(c.schemas) :
                 c.schemas[n][1] = c.tables[3] /\ c.schemas[n][2].type = "data_table"
           /\ HasKey(c.sample_data, c.tables[4])
           /\ HasKey(c.schemas, c.tables[5])

\* A step in which priming task p calls get_sample_data
SampleCall(p) == pc'[p] = "await_sample" /\ pc[p] # "await_sample"

SchemaKinds(d) == { d[n][2].type : n \in 1..Len(d) }

\* C20: a priming task asks for a sample only when it resumes after a schema fetch,
\* and then exactly when the fetch returned a descriptor of kind data_table; the
\* request is for 3 rows of the table just described.
C20_SampleIffDataTable ==
    [][\A p \in Primes :
        /\ SampleCall(p) =>
              /\ pc[p] = "await_schema"
              /\ job'[p] = NewJob("get_sample_data",
                                  SampleQuery(frame[p].tables[frame[p].i], 3))
              /\ frame'[p].i = frame[p].i
        /\ (pc[p] = "await_schema" /\ Finished(p) /\ PrimeResumes(p)) =>
              (SampleCall(p) <=> /\ job[p].out.st = "ok"
                                 /\ job[p].out.val.type = "data_table")]_vars

C20_Witness ==
    \E p \in Primes :
        LET c == analyzer.context
        IN /\ pc[p] = "done"
           /\ SchemaKinds(c.schemas) = {"data_table", "measure_table", "unknown", "error"}
           /\ c.sample_data # <<>>
           /\ \A n \in 1..Len(c.schemas) :
                 c.schemas[n][2].type # "data_table" => ~HasKey(c.sample_data, c.schemas[n][1])

\* Every connect request issued from q on has returned the success text, q included.
ConnectedSince(q) ==
    /\ ToldSuccess(q)
    /\ \A q2 \in Req : (q2 > q /\ kind[q2] = "connect_powerbi") => ToldSuccess(q2)

ListText(r) ==
    \/ res[r] = <<"No tables found in the dataset.">>
    \/ Len(res[r]) = 2 /\ res[r][1] = "Available tables" /\ res[r][2] # <<>>

ProbeFailureText(r) ==
    /\ Len(res[r]) = 2 /\ res[r][1] = "Error listing tables"
    /\ \E m \in DriverMsgs \cup {"row"} : res[r][2] = <<"Failed to discover tables", m>>

\* C21: while a connect request has succeeded and no connect request since has failed
\* or is unfinished, a list_tables request that arrives is dispatched to
\* discover_tables, and a list_tables request that returns gives the table list or
\* the no-tables text, or, when the catalog probe itself failed, the probe's failure;
\* whatever the state of the priming task and of the analysis context.
C21_ListTablesAfterConnect ==
    [][\A r \in Req :
        (\E q \in 1..(r - 1) : ConnectedSince(q)) =>
            /\ (pc[r] = "new" /\ kind'[r] = "list_tables") =>
                  /\ pc'[r] = "await_discover"
                  /\ job'[r] = NewJob("discover_tables", <<>>)
            /\ (kind[r] = "list_tables" /\ pc[r] = "await_discover" /\ pc'[r] = "done") =>
                  (ListText(r) \/ ProbeFailureText(r))']_vars

C21_Witness ==
    \E q, r \in Req :
        /\ q < r /\ ConnectedSince(q) /\ kind[r] = "list_tables" /\ pc[r] = "done"
        /\ Len(res[r]) = 2 /\ res[r][1] = "Available tables"
        /\ pc[PrimeOf(q)] \in {"ready", "await_discover"}
        /\ analyzer.on /\ analyzer.context = EmptyContext

\* Where a request can be: not yet arrived, blocked on the lock, suspended at an
\* await of its handler, or returned.
Suspended ==
    {"await_connect", "await_discover", "await_schema", "await_sample", "await_dax",
     "await_generate", "await_execute", "await_interpret", "await_suggest"}

Last(q) == q[Len(q)]

ToolsWithArguments == {"connect_powerbi", "get_table_info", "execute_dax", "query_data"}

\* C22: a request is never anywhere but waiting or returned with a text; a request
\* with an unknown tool name returns the unknown-tool text; a request with absent
\* arguments returns at once, unless it is a connect blocked on the lock; an exception
\* of a connector or analyzer call, or of the serializer on the rows a call returned,
\* makes the request return a text that ends with the exception's message.
C22_DispatcherIsErrorBoundary ==
    /\ [](\A r \in Req :
            /\ pc[r] \in {"new", "acquiring", "done"} \cup Suspended
            /\ pc[r] = "done" => res[r] # <<>>)
    /\ [][\A r \in Req :
            /\ (pc[r] = "new" /\ kind'[r] \in UnknownNames) =>
                  pc'[r] = "done" /\ res'[r] = <<"Unknown tool", kind'[r]>>
            /\ (pc[r] = "new" /\ kind'[r] \in ToolsWithArguments
                             /\ ~args'[r].present /\ pc'[r] # "acquiring") =>
                  pc'[r] = "done" /\ res'[r] # <<>>
            /\ (pc[r] \in Suspended /\ pc'[r] # pc[r] /\ job[r].out.st = "raise") =>
                  pc'[r] = "done" /\ Last(res'[r]) = job[r].out.val
            /\ (pc[r] \in {"await_dax", "await_sample"} /\ pc'[r] # pc[r]
                    /\ job[r].out.st = "ok" /\ ~RowsEncode(job[r].out.val)) =>
                  pc'[r] = "done" /\ Last(res'[r]) = <<"TypeError">>]_vars

C22_Witness ==
    \E r, q \in Req :
        /\ r < q /\ pc[r] = "done" /\ pc[q] = "done"
        /\ kind[q] = "get_table_info" /\ ~args[q].present
        /\ res[q] = ErrorExecuting("get_table_info", <<"AttributeError">>)
        /\ ToldSuccess(r)

\* Request r arrives in this step, with an arguments dict that lacks the argument
\* its tool requires (or holds an empty one).
ArrivesWithout(r) ==
    /\ pc[r] = "new" /\ pc'[r] # "new" /\ args'[r].present
    /\ \/ kind'[r] = "get_table_info" /\ args'[r].table_name = <<>>
       \/ kind'[r] = "execute_dax" /\ args'[r].dax_query = ""
       \/ kind'[r] = "query_data" /\ args'[r].question = ""

PleaseProvide(k) ==
    CASE k = "get_table_info" -> <<"Please provide a table name.">>
      [] k = "execute_dax" -> <<"Please provide a DAX query.">>
      [] k = "query_data" -> <<"Please provide a question.">>

\* C23 as stated: on a connected server a get_table_info, execute_dax or query_data
\* request without its argument returns its 'Please provide' text and no call is
\* dispatched.
C23_MissingArgumentText ==
    [][\A r \in Req :
        (is_connected /\ ArrivesWithout(r)) =>
            /\ pc'[r] = "done" /\ res'[r] = PleaseProvide(kind'[r])
            /\ job' = job /\ handles' = handles]_vars

\* C23, amended: the same for get_table_info and execute_dax, and for query_data when
\* OPENAI_API_KEY is set.
C23_MissingArgumentTextWithKey ==
    [][\A r \in Req :
        (is_connected /\ ArrivesWithout(r) /\ (kind'[r] = "query_data" => env.key)) =>
            /\ pc'[r] = "done" /\ res'[r] = PleaseProvide(kind'[r])
            /\ job' = job /\ handles' = handles]_vars

C23_Witness ==
    \E r \in Req :
        /\ is_connected /\ kind[r] = "query_data" /\ pc[r] = "done" /\ args[r].present
        /\ res[r] = <<"Please provide a question.">>
        /\ \A t \in Tasks : job[t] = NoJob

QueryStages == {"await_generate", "await_execute", "await_interpret"}

\* Request r starts a call of function f in this step.
StartsCall(r, f) ==
    /\ job'[r].fn = f /\ job'[r].pc = "start"
    /\ job[r].fn # f \/ job[r].pc # "start"

\* C24: a query_data request translates when it arrives, executes only when it resumes
\* after a translation that returned, and then the query that was returned; narrates
\* only when it resumes after an execution that returned, and then the rows that were
\* returned; a stage that raised makes the request return the failure text with no
\* further call; after the narration returned the text holds question, query and
\* answer.
C24_StagesInOrder ==
    [][\A r \in Req :
        kind'[r] = "query_data" =>
            /\ StartsCall(r, "generate_dax_query") => pc[r] = "new"
            /\ StartsCall(r, "execute_dax_query") =>
                  /\ pc[r] = "await_generate" /\ job[r].out.st = "ok"
                  /\ job'[r].arg = job[r].out.val
            /\ StartsCall(r, "interpret_results") =>
                  /\ pc[r] = "await_execute" /\ job[r].out.st = "ok"
                  /\ job'[r].arg = job[r].out.val
            /\ (pc[r] \in QueryStages /\ pc'[r] # pc[r] /\ job[r].out.st = "raise") =>
                  /\ pc'[r] = "done" /\ job'[r] = NoJob
                  /\ res'[r] = ErrorProcessing(job[r].out.val)
            /\ (pc[r] = "await_interpret" /\ pc'[r] # pc[r] /\ job[r].out.st = "ok") =>
                  /\ pc'[r] = "done"
                  /\ res'[r][2] = args[r].question /\ res'[r][6] = job[r].out.val]_vars

C24_Witness ==
    \E r \in Req :
        /\ kind[r] = "query_data" /\ pc[r] = "done" /\ job[r] = NoJob
        /\ \E m \in DriverMsgs : res[r] = ErrorProcessing(<<"DAX query failed", m>>)

IsClean(t) == job[t].fn = "clean_dax_query" /\ Finished(t)

\* What the claim calls a tag: "<", one or more characters other than "<" and ">",
\* then ">".  RemoveTagsFrom drops the tags and keeps every other character.
RECURSIVE RemoveTagsFrom(_, _)
RemoveTagsFrom(q, i) ==
    IF i > Len(q) THEN <<>>
    ELSE LET special == {j \in (i + 1)..Len(q) : q[j] \in {"<", ">"}}
         IN IF q[i] = "<" /\ special # {} /\ q[SetMin(special)] = ">" /\ SetMin(special) >= i + 2
            THEN RemoveTagsFrom(q, SetMin(special) + 1)
            ELSE <<q[i]>> \o RemoveTagsFrom(q, i + 1)

\* C25: clean_dax_query returns its input without the tags and with whitespace
\* collapsed, every "<" and ">" outside a tag kept; for "A < 5 <tag>X</tag> B > 2" it
\* returns "A < 5 X B > 2".
C25_CleanKeepsOperators ==
    \A t \in Tasks :
        IsClean(t) =>
            /\ job[t].out.val = JoinSplitFrom(RemoveTagsFrom(job[t].arg, 1), 1, <<>>, FALSE)
            /\ job[t].arg = TaggedComparison => job[t].out.val = TaggedComparisonCleaned

OtherOperations == {"discover_tables", "get_table_schema", "execute_dax_query", "get_sample_data"}

InsideWith(t) == job[t].pc \in {"set", "m_check", "m_probe"}

\* C27: the open handles are those of the calls that are inside their with block; when
\* no connector call is executing, none is open.
C27_HandlesClosed ==
    /\ handles = Cardinality({t \in Tasks : InsideWith(t)})
    /\ (\A t \in Tasks : ~Running(t)) => handles = 0

C27_Witness ==
    /\ handles = 0 /\ \A t \in Tasks : ~Running(t)
    /\ \E t \in Tasks :
          /\ job[t].fn = "get_table_schema" /\ Finished(t)
          /\ job[t].out.st = "raise" /\ job[t].opened >= 1

\* Calls that a worker thread is executing: dispatched, begun and not yet ended.
Executing == {t \in DOMAIN job : job[t].pc \notin {"-", "start", "done"}}

\* C28: at no time are more calls executing than the worker pool has workers.
C28_PoolBound == Cardinality(Executing) <= max_workers

\* C29: get_table_info on a data table whose descriptor lists its columns as records
\* of name, description and data type returns a text that holds every column's name,
\* description and data type and the sample data, and that is not an "Error getting
\* table info" text. Stated on the step that returns the text, once the sample rows
\* arrived and can be serialised: the text is the table text, it ends with the
\* sample data, and it is not the error text.
C29_RecordColumnsRendered ==
    [][\A r \in Req :
        (/\ kind[r] = "get_table_info" /\ pc[r] = "await_sample" /\ pc'[r] = "done"
         /\ HasRecordColumns(res[r][2])
         /\ job[r].out.st = "ok" /\ RowsEncode(job[r].out.val))
        => /\ res'[r][1] # "Error getting table info"
           /\ res'[r][1] = "Table"
           /\ res'[r][Len(res'[r])] = safe_json_dumps(job[r].out.val).val]_vars

\* A connect request returns in this step.
ConnectReturns(q) == ConnectReq(q) /\ pc[q] = "await_connect" /\ pc'[q] = "done"

\* Priming task p passes its dicts to the analyzer in this step.
PrimeInstalls(p) ==
    /\ pc[p] \in {"await_discover", "await_schema", "await_sample"} /\ pc'[p] = "done"
    /\ analyzer' # analyzer

\* C30: a priming task is not cancelled by a later connect. The step in which a
\* connect request returns leaves every priming task of another connect where it is,
\* with its locals and its job; and a priming task that installs its data installs
\* them into the analyzer that is current at that moment, whichever connect made it.
\* The witness is the execution named by the claim: connect A succeeded, connect B
\* succeeded before A's task finished, and the context of B's analyzer holds the
\* tables A's task discovered through A's connection string.
C30_PrimingNotCancelled ==
    [][\A p \in Primes :
        /\ (\E q \in Req : PrimeOf(q) # p /\ ConnectReturns(q))
             => pc'[p] = pc[p] /\ frame'[p] = frame[p] /\ job'[p] = job[p]
        /\ PrimeInstalls(p)
             => /\ analyzer'.id = analyzer.id
                /\ analyzer'.context.tables = frame[p].tables]_vars

C30_Witness ==
    /\ ToldSuccess(1) /\ ToldSuccess(2)
    /\ analyzer.on /\ analyzer.id = 2
    /\ pc[PrimeOf(1)] = "done" /\ pc[PrimeOf(2)] = "ready"
    /\ analyzer.context.tables # <<>>
    /\ analyzer.context.tables = FilterRows(cacheSrc.rows)
    /\ cacheSrc.cs = ConnStr([args[1] EXCEPT !.tid = Or(@, env.tid), !.cid = Or(@, env.cid),
                                             !.sec = Or(@, env.sec)])
    /\ cacheSrc.cs # connection_string

\* A discover_tables call is past its cache test and has not returned yet.
ProbeInFlight == \E t \in Tasks : job[t].fn = "discover_tables" /\ job[t].pc \in {"probe", "store"}

\* C31: first-time population of the table cache is unguarded. A call goes on to
\* query the driver only if it found the cache empty, and nothing keeps a second
\* call from doing the same meanwhile; every write of the cache is the assignment
\* of one call's complete filtered result; and once the cache is populated and no
\* call is between its cache test and its return, the cache is not written again.
C31_FirstPopulationUnguarded ==
    [][/\ \A t \in Tasks :
             (job[t].fn = "discover_tables" /\ job[t].pc = "cache" /\ job'[t].pc = "probe")
             => tables = <<>>
       /\ tables' # tables
             => \E t \in Tasks : /\ job[t].fn = "discover_tables" /\ job[t].pc = "store"
                                  /\ job'[t].pc = "done"
                                  /\ tables' = FilterRows(job[t].rows)
       /\ (tables # <<>> /\ ~ProbeInFlight) => tables' = tables]_vars

\* Two calls, one of a list_tables request and one of a priming task, both queried
\* the driver, got different answers, and the cache holds the answer stored last.
C31_Witness ==
    \E r \in Req : \E p \in Primes :
        /\ kind[r] = "list_tables"
        /\ job[r].fn = "discover_tables" /\ job[p].fn = "discover_tables"
        /\ job[r].pc = "done" /\ job[p].pc = "done"
        /\ job[r].queried /\ job[p].queried
        /\ job[r].out.st = "ok" /\ job[p].out.st = "ok"
        /\ job[r].out.val # <<>> /\ job[p].out.val # <<>>
        /\ job[r].out.val # job[p].out.val
        /\ tables = job[p].out.val

\* C32: every write to the connection state (the connector's connection_string and
\* connected, the server's is_connected) happens while the writer holds the
\* connection lock, on the success path and on every failure path of connect.
C32_WritesUnderLock == lastWrite.locked

\* The texts that begin with "Not connected to Power BI".
NotConnectedTexts ==
    { tNotConnected,
      <<"Not connected to Power BI. Please connect first using 'connect_powerbi'.">> }

\* The tools that need a connection; the two natural-language tools are reached
\* only with OPENAI_API_KEY configured.
NeedsConnection(k) ==
    \/ k \in {"list_tables", "get_table_info", "execute_dax"}
    \/ k \in {"query_data", "suggest_questions"} /\ env.key

\* C33: list_tables, get_table_info, execute_dax and, with the key configured,
\* query_data and suggest_questions, requested while is_connected is false, return
\* a "Not connected to Power BI" text and dispatch nothing: no job is handed to a
\* worker, no handle is opened, the analyzer is not touched.
C33_NotConnectedGuard ==
    [][\A r \in Req :
        (pc[r] = "new" /\ pc'[r] # "new" /\ NeedsConnection(kind'[r]) /\ ~is_connected)
        => /\ pc'[r] = "done"
           /\ res'[r] \in NotConnectedTexts
           /\ job' = job /\ handles' = handles /\ analyzer' = analyzer]_vars

\* A query_data request that follows a failed connect was told "Not connected".
C33_Witness ==
    \E q, r \in Req :
        /\ q < r /\ ConnectReq(q) /\ pc[q] = "done" /\ res[q][1] = "Connection failed"
        /\ env.key /\ kind[r] = "query_data" /\ pc[r] = "done" /\ res[r] = tNotConnected
        /\ ~is_connected

\* Connect request r enters the body of _handle_connect in this step, with arguments.
EntersConnect(r) ==
    /\ pc[r] = "new" /\ pc'[r] \notin {"new", "acquiring"}
    /\ kind'[r] = "connect_powerbi" /\ args'[r].present

\* One of tenant id, client id and client secret is in neither the request nor the
\* process defaults.
CredentialsMissing(a) ==
    ~(Truthy(Or(a.tid, env.tid)) /\ Truthy(Or(a.cid, env.cid)) /\ Truthy(Or(a.sec, env.sec)))

\* C34: connect_powerbi takes tenant id, client id and client secret from the
\* request and falls back to the process default for each one that is absent. If
\* one is still missing it returns the "Missing credentials" text, attempts no
\* probe connection, starts no priming task, releases the connection lock and
\* leaves connected, is_connected, the connection string and the analyzer as they
\* were; if none is missing it does not return that text.
C34_MissingCredentials ==
    [][\A r \in Req :
        /\ (EntersConnect(r) /\ CredentialsMissing(args'[r]))
            => /\ pc'[r] = "done" /\ res'[r] = tMissingCredentials
               /\ job' = job /\ handles' = handles
               /\ pc'[PrimeOf(r)] = pc[PrimeOf(r)] /\ kind'[PrimeOf(r)] = kind[PrimeOf(r)]
               /\ connection_lock' = 0
               /\ connected' = connected /\ is_connected' = is_connected
               /\ connection_string' = connection_string /\ analyzer' = analyzer
        /\ (EntersConnect(r) /\ ~CredentialsMissing(args'[r]))
            => res'[r] # tMissingCredentials]_vars

\* A connected server answered a connect request "Missing credentials" and is
\* still connected, with the lock free.
C34_Witness ==
    \E q, r \in Req :
        /\ q < r /\ ToldSuccess(q)
        /\ ConnectReq(r) /\ pc[r] = "done" /\ res[r] = tMissingCredentials
        /\ args[r].present /\ CredentialsMissing(args[r])
        /\ is_connected /\ connected /\ connection_lock = 0

\* C35: a connect_powerbi request that lacks xmla_endpoint or initial_catalog
\* returns a text, attempts no probe connection, and leaves the connected state of
\* the server as it was before the request: a connected server stays connected.
C35_RejectedConnectKeepsState ==
    [][\A r \in Req :
        (/\ EntersConnect(r) /\ ~CredentialsMissing(args'[r])
         /\ (args'[r].ep = None \/ args'[r].cat = None))
        => /\ pc'[r] = "done" /\ res'[r] # <<>>
           /\ job' = job /\ handles' = handles
           /\ is_connected' = is_connected /\ connected' = connected]_vars

\* C36: whenever no connect request is in flight, the server's is_connected and
\* the connector's connected are equal.
C36_FlagsAgree ==
    (\A r \in Req : ~(ConnectReq(r) /\ pc[r] \in {"acquiring", "await_connect"}))
    => is_connected = connected

\* C37: the stored connection string changes only when a probe connection
\* succeeds; a connect whose probe fails leaves the string stored before it.
C37_StringChangesOnSuccessOnly ==
    [][connection_string' # connection_string
       => \E t \in Tasks : /\ job[t].fn = "connect" /\ job[t].pc = "start"
                            /\ job'[t].pc = "set"]_vars

\* C38: clean_dax_query is idempotent, clean_dax_query(clean_dax_query(q)) =
\* clean_dax_query(q), so that the natural-language path, which cleans the generated
\* query in the analyzer and again in execute_dax_query, executes the very text it
\* reports: the second call returns its argument.
C38_CleanIdempotent ==
    /\ \A t \in Tasks : IsClean(t) => clean_dax_query(job[t].out.val) = job[t].out.val
    /\ (IsClean(1) /\ IsClean(2)) =>
           /\ job[2].arg = job[1].out.val
           /\ job[2].out.val = job[1].out.val

\* The generated query "A < 5 <tag>X</tag> B > 2" went through both calls: the
\* first changed it, the second did not.
C38_Witness ==
    /\ IsClean(1) /\ IsClean(2)
    /\ job[1].arg = TaggedComparison
    /\ job[1].out.val # job[1].arg /\ job[1].out.val # <<>>
    /\ job[2].out.val = job[1].out.val

\* The keys of a dict.
Keys(d) == {d[n][1] : n \in 1..Len(d)}

\* d[k]
Lookup(d, k) == d[CHOOSE n \in 1..Len(d) : d[n][1] = k][2]

\* C39: in every installed analysis context the tables with sample data are among
\* the tables with a schema, each of them is a data_table, and the tables with a
\* schema are among the first five entries of the context's table list.
C39_ContextShape ==
    LET c == analyzer.context
    IN /\ Keys(c.sample_data) \subseteq Keys(c.schemas)
       /\ \A k \in Keys(c.sample_data) : Lookup(c.schemas, k).type = "data_table"
       /\ Keys(c.schemas) \subseteq {c.tables[n] : n \in 1..Min(PrimeCap, Len(c.tables))}

\* An installed context of more than five tables, with five schemas, with sample
\* data for some data table and none for a table that is not one.
C39_Witness ==
    LET c == analyzer.context
    IN /\ analyzer.on /\ Len(c.tables) > PrimeCap
       /\ Len(c.schemas) = PrimeCap
       /\ c.sample_data # <<>>
       /\ Keys(c.sample_data) # Keys(c.schemas)
       /\ \E k \in Keys(c.schemas) : Lookup(c.schemas, k).type # "data_table"

====
